---- MODULE Spec2Model ----
(***************************************************************************)
(* Turn pipeline of the chat store (src/src/stores/chat.ts): sendMessage,  *)
(* its stream interpreter callback, the reasoning tick, the abort cleanup  *)
(* and the stop button of the chat input (src/unnamed/part_002).           *)
(*                                                                         *)
(* One action is one macrotask of the browser event loop: the synchronous  *)
(* code that runs, together with the promise reactions it queues, until    *)
(* every continuation waits on the network, a timer or the user.           *)
(***************************************************************************)
EXTENDS Integers, Sequences, FiniteSets, TLC

\* ---------------------------------------------------------------- bounds
MaxTurns == 2       \* sendMessage invocations in one behaviour
MaxFrags == 1       \* fragments delivered in one behaviour of overlapping turns
MaxFragsI == 3      \* fragments the response stream of a single turn delivers
MaxTime == 2        \* last value of the clock (Date.now())
MaxHist == 2        \* messages of a chat before the new user message
MaxM == 3           \* largest configured settings.maxMessages
MaxBurst == 2       \* submissions counted in one throttle window
MaxFragsP == 2      \* fragments of the turn whose writes are followed
MaxClock == 4       \* last reading of the clock given to the metrics
MaxChars == 3       \* largest assistantContent.length given to the metrics
MaxOver == 1        \* characters by which a context text exceeds its cap
MaxRetries == 10    \* largest maxRetries given to waitForBackend

\* ------------------------------------------------------ program constants
BufLen == 64        \* thinkTagBuffer keeps the last 64 characters
NULL == 0           \* null: no controller, no message id, no start time
UNDEF == -1         \* undefined: an optional argument that is not passed
DefaultMaxMessages == 20   \* settings.maxMessages || 20
AttachmentCap == 3000      \* truncateText(textFileContent.content, 3000)
ContextCap == 6000         \* truncateText(raw, 6000)
DefaultDelay == 1000       \* waitForBackend (maxRetries = 10, delay = 1000)

Turns == 1..MaxTurns

\* settings.defaultChatTitle, the title of a new chat
DefaultChatTitle == "default"
\* a field of a ChatMeta that is not given
NoTitle == "undefined"
Chats == {"A", "B"}

\* ------------------------------------------------------------------ text
\* Text is a sequence of one-character strings.
T_OPEN == <<"<", "t", "h", "i", "n", "k", ">">>
T_CLOSE == <<"<", "/", "t", "h", "i", "n", "k", ">">>
A_OPEN == <<"<", "a", "n", "a", "l", "y", "s", "i", "s", ">">>
A_CLOSE == <<"<", "/", "a", "n", "a", "l", "y", "s", "i", "s", ">">>

THINK_OPEN_TAGS == {T_OPEN, A_OPEN}
THINK_CLOSE_TAGS == {T_CLOSE, A_CLOSE}

\* String.prototype.includes
Includes(s, p) ==
  \E i \in 0..(Len(s) - Len(p)) : SubSeq(s, i + 1, i + Len(p)) = p

\* tags.some(t => s.includes(t))
SomeIncluded(tags, s) == \E p \in tags : Includes(s, p)

\* s.slice(-n); -0 is 0, so s.slice(-0) is the whole of s
SliceLast(s, n) ==
  IF n = 0 \/ Len(s) <= n THEN s ELSE SubSeq(s, Len(s) - n + 1, Len(s))

\* --------------------------------------------------------------- messages
\* outputChars stands for the metrics of the message (the 'extra' fields)
NewMessage(id, role, content, isLoading, thinkTime, isThinking) ==
  [id |-> id, role |-> role, content |-> content, isLoading |-> isLoading,
   thinkTime |-> thinkTime, isThinking |-> isThinking, outputChars |-> UNDEF]

\* addMessage: push the new message on chat.messages
AddMessage(msgs, c, m) == [msgs EXCEPT ![c] = Append(msgs[c], m)]

\* an update that adds the message when the chat does not have it
UpdateMessageOrAdd(msgs, c, id, content, isLoading, thinkTime, isThinking, outputChars) ==
  IF \E i \in DOMAIN msgs[c] : msgs[c][i].id = id
  THEN [msgs EXCEPT ![c] =
          [i \in DOMAIN msgs[c] |->
             IF msgs[c][i].id = id
             THEN [msgs[c][i] EXCEPT !.content = content, !.isLoading = isLoading,
                                     !.isThinking = isThinking]
             ELSE msgs[c][i]]]
  ELSE [msgs EXCEPT ![c] =
          Append(msgs[c], [id |-> id, role |-> "assistant", content |-> content,
                           isLoading |-> isLoading, thinkTime |-> thinkTime,
                           isThinking |-> isThinking, outputChars |-> outputChars])]

\* updateMessage: mutate the message with that id, if the chat still has it;
\* thinkTime and the metrics are written only when they are passed
UpdateMessage(msgs, c, id, content, isLoading, thinkTime, isThinking, outputChars) ==
  [msgs EXCEPT ![c] =
     [i \in DOMAIN msgs[c] |->
        IF msgs[c][i].id = id
        THEN [msgs[c][i] EXCEPT
                !.content = content,
                !.isLoading = isLoading,
                !.thinkTime = IF thinkTime # UNDEF THEN thinkTime ELSE msgs[c][i].thinkTime,
                !.isThinking = isThinking,
                !.outputChars = IF outputChars # UNDEF THEN outputChars
                                ELSE msgs[c][i].outputChars]
        ELSE msgs[c][i]]]

HasMessage(msgs, c, id) == \E i \in DOMAIN msgs[c] : msgs[c][i].id = id
MessageOf(msgs, c, id) == msgs[c][CHOOSE i \in DOMAIN msgs[c] : msgs[c][i].id = id]

\* ------------------------------------------------------------ persistence
\* the write kinds: saveMessage, replaceChatMessages, saveChatMeta
WriteKinds == {"message", "list", "meta"}

\* no call is waiting / nothing was written
NoArgs == [kind |-> "none"]

\* serializableMessage: the fields of a message that are sent to the backend
Serializable(m) ==
  [id |-> m.id, content |-> m.content, role |-> m.role,
   thinkTime |-> m.thinkTime, isThinking |-> m.isThinking]

\* what the backend receives when the function of kind k is called on args
BackendWrite(k, args) ==
  IF k = "message"
  THEN [kind |-> k, chatId |-> args.chatId, message |-> Serializable(args.message)]
  ELSE IF k = "list"
  THEN [kind |-> k, chatId |-> args.chatId,
        messages |-> [i \in DOMAIN args.messages |-> Serializable(args.messages[i])]]
  ELSE [kind |-> k, id |-> args.id, title |-> args.title, timestamp |-> args.timestamp]

\* the backend's copy of the chats before any write: the messages and the
\* title of every chat
EmptyDb ==
  [messages |-> [c \in Chats |-> <<>>],
   title |-> [c \in Chats |-> DefaultChatTitle]]

\* the backend's copy after the function of kind k was called on args: a
\* message write replaces the message with that id or adds it, a list write
\* replaces the messages of the chat, a meta write sets the fields it carries
BackendApply(db, k, args) ==
  IF k = "message"
  THEN LET stored == db.messages[args.chatId]
           m == Serializable(args.message)
       IN [db EXCEPT !.messages[args.chatId] =
             IF \E i \in DOMAIN stored : stored[i].id = m.id
             THEN [i \in DOMAIN stored |-> IF stored[i].id = m.id THEN m ELSE stored[i]]
             ELSE Append(stored, m)]
  ELSE IF k = "list"
  THEN [db EXCEPT !.messages[args.chatId] =
          [i \in DOMAIN args.messages |-> Serializable(args.messages[i])]]
  ELSE [db EXCEPT !.title[args.id] = IF args.title # NoTitle THEN args.title ELSE @]

\* the persistence layer before any call: per kind, the arguments waiting
\* for the end of the throttle window, what the backend received last, and,
\* for the record, the arguments of the last call and the number of calls
\* in the window that is open or was closed last; whether a failed write
\* rejects the promise the caller awaits (handleGraphQLError and the
\* throttle decide), and the kinds whose last write failed; the message ids
\* given to the deleteMessage mutation, and the backend's copy of the chats
NoWrites ==
  [followed |-> TRUE,
   rethrows |-> FALSE,
   failed |-> {},
   pending |-> [k \in WriteKinds |-> NoArgs],
   written |-> [k \in WriteKinds |-> NoArgs],
   submitted |-> [k \in WriteKinds |-> NoArgs],
   burst |-> [k \in WriteKinds |-> 0],
   deleted |-> {},
   db |-> EmptyDb]

\* the persistence layer in the behaviours that do not follow the writes
NotFollowed == [NoWrites EXCEPT !.followed = FALSE]

\* a throttled function that keeps the arguments of the first call of a window
SubmitLeading(pst, k, args) ==
  IF ~pst.followed THEN pst
  ELSE [pst EXCEPT !.pending[k] = IF @ = NoArgs THEN args ELSE @,
                   !.submitted[k] = args,
                   !.burst[k] = IF pst.pending[k] = NoArgs THEN 1
                                ELSE IF @ < MaxBurst THEN @ + 1 ELSE @]

\* a call of the throttled function of kind k: the arguments replace those
\* of the calls of the same window (trailing-edge coalescing)
Submit(pst, k, args) ==
  IF ~pst.followed THEN pst
  ELSE [pst EXCEPT !.pending[k] = args,
                   !.submitted[k] = args,
                   !.burst[k] = IF pst.pending[k] = NoArgs THEN 1
                                ELSE IF @ < MaxBurst THEN @ + 1 ELSE @]

\* a persistMessage that calls saveMessage itself
PersistMessageDirect(pst, c, m) ==
  IF ~pst.followed THEN pst
  ELSE [pst EXCEPT !.written["message"] =
                     BackendWrite("message", [kind |-> "message", chatId |-> c, message |-> m]),
                   !.submitted["message"] = [kind |-> "message", chatId |-> c, message |-> m]]

\* persistMessage
PersistMessage(pst, c, m) ==
  Submit(pst, "message", [kind |-> "message", chatId |-> c, message |-> m])

\* a persistChatMessages that submits nothing
PersistChatMessagesSkipped(pst, c, msgs) == pst

\* persistChatMessages
PersistChatMessages(pst, c, msgs) ==
  Submit(pst, "list", [kind |-> "list", chatId |-> c, messages |-> msgs[c]])

\* persistChatMeta({ id, timestamp })
PersistChatMeta(pst, c, timestamp) ==
  Submit(pst, "meta", [kind |-> "meta", id |-> c, title |-> NoTitle,
                       timestamp |-> timestamp])

\* renameChat: persistChatMeta({ id, title })
PersistChatTitle(pst, c, newTitle) ==
  Submit(pst, "meta", [kind |-> "meta", id |-> c, title |-> newTitle,
                       timestamp |-> UNDEF])

\* the end of updateMessage: the message, when it was found, is submitted
PersistUpdated(pst, msgs, c, id) ==
  IF HasMessage(msgs, c, id) THEN PersistMessage(pst, c, MessageOf(msgs, c, id)) ELSE pst

\* ------------------------------------------------------- context assembly
\* in a content, this piece is a <details class="internal-context"> block
CTX == "<details>"

Whitespace == {" ", "\n"}

RECURSIVE TrimStart(_)
TrimStart(s) == IF s # <<>> /\ s[1] \in Whitespace THEN TrimStart(Tail(s)) ELSE s

RECURSIVE TrimEnd(_)
TrimEnd(s) ==
  IF s # <<>> /\ s[Len(s)] \in Whitespace THEN TrimEnd(SubSeq(s, 1, Len(s) - 1)) ELSE s

\* String.prototype.trim
Trim(s) == TrimEnd(TrimStart(s))

\* the internal context blocks are removed, then the content is trimmed
StripInternalContextBlocks(content) ==
  Trim(SelectSeq(content, LAMBDA x : x # CTX))

\* [a, b].filter(Boolean).join(sep)
JoinTruthy(a, b, sep) ==
  IF a = <<>> THEN b ELSE IF b = <<>> THEN a ELSE a \o sep \o b

\* a merge that keeps only the later content of a run
JoinContentsLast(prev, content) == content

\* [prev.content, content].filter(Boolean).join('\n\n')
JoinContents(prev, content) == JoinTruthy(prev, content, <<"\n", "\n">>)

\* a loop body that pushes every entry that is not blank
MergeStepPush(merged, msg) ==
  IF Trim(msg.content) = <<>> THEN merged
  ELSE Append(merged, [role |-> msg.role, content |-> msg.content])

\* the body of the loop of mergeConsecutiveRoles
MergeStep(merged, msg) ==
  IF Trim(msg.content) = <<>> THEN merged
  ELSE IF merged # <<>> /\ merged[Len(merged)].role = msg.role
       THEN [merged EXCEPT ![Len(merged)].content = JoinContents(@, msg.content)]
  ELSE Append(merged, [role |-> msg.role, content |-> msg.content])

RECURSIVE MergeInto(_, _)
MergeInto(merged, msgs) ==
  IF msgs = <<>> THEN merged
  ELSE MergeInto(MergeStep(merged, Head(msgs)), Tail(msgs))

MergeConsecutiveRoles(msgs) == MergeInto(<<>>, msgs)

\* settings.maxMessages || 20
MaxMessagesOf(in) ==
  IF in.maxMessages = 0 THEN DefaultMaxMessages ELSE in.maxMessages

ReservedSlots(in) ==
  (IF in.systemPrompt # <<>> \/ in.memoryContent # <<>> THEN 1 ELSE 0) + 1

\* Math.max(0, maxMessages - reservedSlots)
AvailableSlots(in) ==
  IF MaxMessagesOf(in) - ReservedSlots(in) > 0
  THEN MaxMessagesOf(in) - ReservedSlots(in) ELSE 0

\* chat.messages.filter(...).slice(-availableSlots).map(...)
FilteredMessages(in) ==
  LET kept == SelectSeq(in.messages,
                LAMBDA m : m.id # in.userMessageId /\ m.role # "system")
      sliced == SliceLast(kept, AvailableSlots(in))
  IN [i \in DOMAIN sliced |->
        [role |-> sliced[i].role,
         content |-> StripInternalContextBlocks(sliced[i].content)]]

\* what buildOllamaRequestBody throws
Throws(message) == [status |-> "throws", error |-> message]

\* hasAttachment && attachmentContent.type === AttachmentType.IMAGE
IsImage(in) == in.attachment \in {"image", "imageNoContent"}

\* the body for /api/generate: the prompt and the image
GenerateBody(in) ==
  [status |-> "generate",
   prompt |-> JoinTruthy(JoinTruthy(in.systemPrompt, in.memoryContent, <<"\n">>),
                         in.finalContent, <<"\n">>)]

\* the part of buildOllamaRequestBody after the image path: body.messages,
\* and the entries before they are merged
ChatBody(in) ==
  LET systemContent == JoinTruthy(in.systemPrompt, in.memoryContent, <<"\n">>)
      head == IF systemContent # <<>>
              THEN <<[role |-> "system", content |-> systemContent]>> ELSE <<>>
      userMessageExists ==
        \E i \in DOMAIN in.messages : in.messages[i].id = in.userMessageId
      assembled == head \o FilteredMessages(in)
                     \o <<[role |-> "user", content |-> in.finalContent]>>
  IN IF ~userMessageExists
     THEN Throws("User message not found in chat")
     ELSE [status |-> "ok", history |-> FilteredMessages(in),
           assembled |-> assembled, messages |-> MergeConsecutiveRoles(assembled)]

\* buildOllamaRequestBody
BuildOllamaRequestBody(in) ==
  IF in.chat # "ok" THEN Throws("Invalid chat object")
  ELSE IF in.selectedModel = "" THEN Throws("No model selected")
  ELSE IF in.userMessageId = NULL THEN Throws("Invalid user message ID")
  ELSE IF IsImage(in)
  THEN IF in.attachment = "imageNoContent"
       THEN Throws("Invalid image attachment content")
       ELSE GenerateBody(in)
  ELSE ChatBody(in)

\* --------------------------------------------- objects of a request body
\* The objects a call of buildOllamaRequestBody reads and writes: a heap is a
\* sequence of objects, a reference is an index; the stored messages of
\* chat.messages are the first objects, the call creates the others.

\* a map callback that strips the stored message itself
StripInPlace(heap, ref) ==
  [heap |-> [heap EXCEPT ![ref].content = StripInternalContextBlocks(@)],
   ref |-> ref]

\* msg => ({ role: msg.role, content: stripInternalContextBlocks(msg.content) })
CopyStripped(heap, ref) ==
  [heap |-> Append(heap, [id |-> NULL, role |-> heap[ref].role,
                          content |-> StripInternalContextBlocks(heap[ref].content)]),
   ref |-> Len(heap) + 1]

RECURSIVE MapObjects(_, _)
\* .map(...) over an array of references
MapObjects(heap, refs) ==
  IF refs = <<>> THEN [heap |-> heap, refs |-> <<>>]
  ELSE LET a == CopyStripped(heap, Head(refs))
           r == MapObjects(a.heap, Tail(refs))
       IN [heap |-> r.heap, refs |-> <<a.ref>> \o r.refs]

RECURSIVE MergeObjects(_, _, _)
\* mergeConsecutiveRoles on references: prev.content = ... writes the object
\* prev refers to, merged.push({ role, content }) creates one
MergeObjects(heap, merged, refs) ==
  IF refs = <<>> THEN [heap |-> heap, refs |-> merged]
  ELSE LET msg == heap[Head(refs)]
       IN IF Trim(msg.content) = <<>> THEN MergeObjects(heap, merged, Tail(refs))
          ELSE IF merged # <<>> /\ heap[merged[Len(merged)]].role = msg.role
          THEN MergeObjects(
                 [heap EXCEPT ![merged[Len(merged)]].content = JoinContents(@, msg.content)],
                 merged, Tail(refs))
          ELSE MergeObjects(
                 Append(heap, [id |-> NULL, role |-> msg.role, content |-> msg.content]),
                 Append(merged, Len(heap) + 1), Tail(refs))

\* the references .filter(...).slice(-availableSlots) keeps
FilteredRefs(in) ==
  LET all == [i \in DOMAIN in.messages |-> i]
      kept == SelectSeq(all, LAMBDA i : in.messages[i].id # in.userMessageId
                                        /\ in.messages[i].role # "system")
  IN SliceLast(kept, AvailableSlots(in))

\* the heap and body.messages (as references) after the chat path of the call
BuildObjects(in) ==
  LET systemContent == JoinTruthy(in.systemPrompt, in.memoryContent, <<"\n">>)
      h1 == IF systemContent # <<>>
            THEN Append(in.messages, [id |-> NULL, role |-> "system", content |-> systemContent])
            ELSE in.messages
      head == IF systemContent # <<>> THEN <<Len(h1)>> ELSE <<>>
      mapped == MapObjects(h1, FilteredRefs(in))
      h2 == Append(mapped.heap, [id |-> NULL, role |-> "user", content |-> in.finalContent])
  IN MergeObjects(h2, <<>>, head \o mapped.refs \o <<Len(h2)>>)

\* chat.messages when the call has returned or thrown
StoredAfterBuild(in) ==
  IF BuildOllamaRequestBody(in).status = "ok"
  THEN SubSeq(BuildObjects(in).heap, 1, Len(in.messages))
  ELSE in.messages

\* --------------------------------------------------------- context blocks
\* a truncateText that keeps maxChars characters before the ellipsis
TruncateTextLong(value, maxChars) ==
  IF value = <<>> THEN <<>>
  ELSE IF Len(value) <= maxChars THEN value
  ELSE SubSeq(value, 1, maxChars) \o <<"...">>

\* truncateText; "..." stands for the ellipsis, one character
TruncateText(value, maxChars) ==
  IF value = <<>> THEN <<>>
  ELSE IF Len(value) <= maxChars THEN value
  ELSE SubSeq(value, 1, IF maxChars - 1 > 0 THEN maxChars - 1 ELSE 0) \o <<"...">>

\* the sections of the context, in the order sendMessage appends them
Sections == {"attachment", "search", "links", "retrieval"}

\* the cap sendMessage gives to truncateText for the body of a section
CapOf(section) == IF section = "attachment" THEN AttachmentCap ELSE ContextCap

\* a text of n characters
Chars(n) == [i \in 1..n |-> "x"]

\* the bodies of contextForModel: the text of each section, truncated; a
\* section with an empty text has no block
ContextBodies(raw) ==
  [section \in Sections |-> TruncateText(raw[section], CapOf(section))]

\* ---------------------------------------------------------------- metrics
\* a speed that is not computed: firstTokenTime is null
NoSpeed == [defined |-> FALSE, num |-> 0, den |-> 1]

\* (now - firstTokenTime) / 1000 without the floor
UnflooredSeconds(ms) == ms

\* Math.max(0.001, ms / 1000), in thousandths: times are whole milliseconds
FlooredSeconds(ms) == IF ms > 1 THEN ms ELSE 1

\* the metrics sendMessage computes per fragment, in cleanup and at the end;
\* speedCps is the quotient num / den
Metrics(requestStartTime, firstTokenTime, clock, outputChars) ==
  [firstTokenMs |-> IF firstTokenTime # NULL
                    THEN firstTokenTime - requestStartTime ELSE UNDEF,
   responseMs |-> clock - requestStartTime,
   outputChars |-> outputChars,
   speedCps |-> IF firstTokenTime # NULL
                THEN [defined |-> TRUE, num |-> outputChars * 1000,
                      den |-> FlooredSeconds(clock - firstTokenTime)]
                ELSE NoSpeed]

\* no call yet
NoInput ==
  [chat |-> "ok", selectedModel |-> "", attachment |-> "none",
   systemPrompt |-> <<>>, memoryContent |-> <<>>, messages |-> <<>>,
   userMessageId |-> NULL, finalContent |-> <<>>, maxMessages |-> 0]
NoOutput == [status |-> "none"]

\* ------------------------------------------------------------------ state
VARIABLES
  messages,         \* chat.messages of every chat
  activeChatId,     \* the chat shown in the UI
  title,            \* chat.title of every chat
  isSending,        \* store flag
  abortController,  \* store field: NULL or the turn that created the controller
  aborted,          \* controllers whose signal has fired
  error,            \* store field
  now,              \* Date.now()
  nextId,           \* next fresh message id (crypto.randomUUID)
  turns,            \* the closure of every sendMessage invocation
  persist,          \* the throttled writes and what the backend received
  input,            \* the arguments of a call of buildOllamaRequestBody
  output            \* what that call returns or throws

storeVars == <<messages, activeChatId, title, isSending, abortController, aborted, error,
               now, nextId, turns, persist>>
reqVars == <<input, output>>
vars == <<storeVars, reqVars>>

\* closure of a sendMessage invocation before the call
IdleTurn ==
  [pc |-> "idle", chatId |-> "A", fetchSignal |-> NULL, listenerOn |-> NULL,
   thinkStartTime |-> NULL, isInThinkBlock |-> FALSE, thinkTagBuffer |-> <<>>,
   assistantMessageId |-> NULL, assistantContent |-> <<>>,
   thinkTimeInterval |-> FALSE, timerRunning |-> FALSE,
   usesThinkingField |-> FALSE, delivered |-> <<>>,
   sideFailure |-> "none", outcome |-> "none"]

Init ==
  /\ messages = [c \in Chats |-> <<>>]
  /\ activeChatId \in Chats
  /\ title = [c \in Chats |-> DefaultChatTitle]
  /\ isSending = FALSE
  /\ abortController = NULL
  /\ aborted = {}
  /\ error = "null"
  /\ now = 1
  /\ nextId = 1
  /\ turns = [t \in Turns |-> IdleTurn]
  /\ persist = NotFollowed
  /\ input = NoInput
  /\ output = NoOutput

\* ------------------------------------------------------- reasoning tick
\* clearInterval(thinkTimeInterval) when the variable holds a handle
ClearInterval(tr) == [tr EXCEPT !.timerRunning = FALSE]

\* startThinkTimeUpdates
StartThinkTimeUpdates(tr) ==
  [tr EXCEPT !.thinkTimeInterval = TRUE, !.timerRunning = TRUE]

\* ------------------------------------------------- tag-based interpreter
UpdateThinkStateFromChunk(tr, chunk, clock) ==
  LET buf == SliceLast(tr.thinkTagBuffer \o chunk, BufLen)
      t1 == [tr EXCEPT !.thinkTagBuffer = buf]
      t2 == IF ~t1.isInThinkBlock /\ SomeIncluded(THINK_OPEN_TAGS, buf)
            THEN StartThinkTimeUpdates(
                   [t1 EXCEPT !.thinkStartTime = clock, !.isInThinkBlock = TRUE])
            ELSE t1
  IN IF t2.isInThinkBlock /\ SomeIncluded(THINK_CLOSE_TAGS, buf)
     THEN [t2 EXCEPT !.isInThinkBlock = FALSE,
                     !.thinkTimeInterval = FALSE, !.timerRunning = FALSE]
     ELSE t2

\* ------------------------------------------------ stream callback (onData)
\* a fragment of the response stream: data.message.thinking / .content
Fragment(thinking, content) == [thinking |-> thinking, content |-> content]

\* the close marker appended on every answer fragment of a channel-encoded turn
ClosesOnEveryAnswer(tr) == tr.usesThinkingField

\* "Close thinking block when transitioning from `thinking` field to `content`"
ClosesOnTransition(tr) == tr.usesThinkingField /\ tr.isInThinkBlock

\* tag detection that ignores the encoding of the turn
DetectsInlineTagsAlways(tr) == TRUE

\* "Detect <think>/<analysis> tags in content (legacy format)"
DetectsInlineTags(tr) == ~tr.usesThinkingField

\* if (thinkingChunk) { ... return; }
OnThinkingChunk(tr, chunk, msgs, clock, nid) ==
  LET t1 == [tr EXCEPT !.usesThinkingField = TRUE]
      t2 == IF ~t1.isInThinkBlock
            THEN StartThinkTimeUpdates(
                   [t1 EXCEPT !.assistantContent = t1.assistantContent \o T_OPEN,
                              !.thinkStartTime = clock,
                              !.isInThinkBlock = TRUE])
            ELSE t1
      isNew == t2.assistantMessageId = NULL
      id == IF isNew THEN nid ELSE t2.assistantMessageId
      m1 == IF isNew
            THEN AddMessage(msgs, t2.chatId,
                   NewMessage(nid, "assistant", <<>>, TRUE, clock - t2.thinkStartTime, TRUE))
            ELSE msgs
      t3 == [t2 EXCEPT !.assistantMessageId = id,
                       !.assistantContent = t2.assistantContent \o chunk]
  IN [tr |-> t3,
      msgs |-> UpdateMessage(m1, t3.chatId, id, t3.assistantContent, TRUE,
                 IF t3.thinkStartTime # NULL THEN clock - t3.thinkStartTime ELSE UNDEF,
                 TRUE, Len(t3.assistantContent)),
      nid |-> IF isNew THEN nid + 1 ELSE nid]

\* an answer fragment that keeps measuring after the reasoning segment closed
ContentThinkTimeAlways(tr, clock) ==
  IF tr.thinkStartTime # NULL THEN clock - tr.thinkStartTime ELSE UNDEF

\* thinkTimeInterval && isInThinkBlock && thinkStartTime ? now - thinkStartTime : undefined
ContentThinkTime(tr, clock) ==
  IF tr.thinkTimeInterval /\ tr.isInThinkBlock /\ tr.thinkStartTime # NULL
  THEN clock - tr.thinkStartTime ELSE UNDEF

\* "Handle regular content"
OnContentChunk(tr, chunk, msgs, clock, nid) ==
  LET t1 == IF ClosesOnTransition(tr)
            THEN [tr EXCEPT !.assistantContent = tr.assistantContent \o T_CLOSE,
                            !.isInThinkBlock = FALSE,
                            !.thinkTimeInterval = FALSE, !.timerRunning = FALSE]
            ELSE tr
      t2 == IF DetectsInlineTags(t1) THEN UpdateThinkStateFromChunk(t1, chunk, clock) ELSE t1
      isNew == t2.assistantMessageId = NULL
      id == IF isNew THEN nid ELSE t2.assistantMessageId
      m1 == IF isNew
            THEN AddMessage(msgs, t2.chatId,
                   NewMessage(nid, "assistant", <<>>, TRUE,
                     IF t2.thinkStartTime # NULL /\ t2.isInThinkBlock
                     THEN clock - t2.thinkStartTime ELSE UNDEF,
                     t2.isInThinkBlock))
            ELSE msgs
      t3 == [t2 EXCEPT !.assistantMessageId = id,
                       !.assistantContent = t2.assistantContent \o chunk]
  IN [tr |-> t3,
      msgs |-> UpdateMessage(m1, t3.chatId, id, t3.assistantContent, TRUE,
                 ContentThinkTime(t3, clock), t3.isInThinkBlock,
                 Len(t3.assistantContent)),
      nid |-> IF isNew THEN nid + 1 ELSE nid]

\* a callback without the early return on a fragment that has no text
OnDataEager(tr, f, msgs, clock, nid) ==
  IF f.thinking # <<>> THEN OnThinkingChunk(tr, f.thinking, msgs, clock, nid)
  ELSE OnContentChunk(tr, f.content, msgs, clock, nid)

\* the callback passed to processStream
OnData(tr, f, msgs, clock, nid) ==
  IF f.thinking # <<>> THEN OnThinkingChunk(tr, f.thinking, msgs, clock, nid)
  ELSE IF f.content = <<>> THEN [tr |-> tr, msgs |-> msgs, nid |-> nid]
  ELSE OnContentChunk(tr, f.content, msgs, clock, nid)

\* ---------------------------------------------------------------- cleanup
CleanupApplies(tr) == tr.assistantMessageId # NULL /\ tr.isInThinkBlock

\* a cleanup that does not pass the elapsed reasoning time
CleanupThinkTimeOmitted(tr, clock) == UNDEF

CleanupThinkTime(tr, clock) ==
  IF tr.thinkStartTime # NULL THEN clock - tr.thinkStartTime ELSE UNDEF

\* the 'abort' listener of a turn
Cleanup(tr, msgs, clock) ==
  [tr |-> IF tr.thinkTimeInterval THEN ClearInterval(tr) ELSE tr,
   msgs |-> IF CleanupApplies(tr)
            THEN UpdateMessage(msgs, tr.chatId, tr.assistantMessageId,
                   tr.assistantContent, FALSE, CleanupThinkTime(tr, clock), FALSE,
                   Len(tr.assistantContent))
            ELSE msgs]

\* ------------------------------------------------------------------ abort
\* the pending fetch of a turn rejects with AbortError when its signal fires
AbortsRequest(tr, c) == tr.pc = "fetch" /\ tr.fetchSignal = c

\* the pending read of the response stream rejects with AbortError
AbortsStream(tr, c) == tr.pc = "stream" /\ tr.fetchSignal = c

\* catch (AbortError) and finally of sendMessage, closure part
ExitTurn(tr, outcome) == [tr EXCEPT !.pc = "done", !.outcome = outcome]

RECURSIVE RunListeners(_, _, _, _, _, _)
\* the listeners registered on the signal of controller c run, one per turn
RunListeners(ts, trs, msgs, pst, c, clock) ==
  IF ts = {} THEN [turns |-> trs, msgs |-> msgs, pst |-> pst]
  ELSE LET t == CHOOSE x \in ts : TRUE
           runs == trs[t].listenerOn = c
           r == IF runs THEN Cleanup(trs[t], msgs, clock)
                ELSE [tr |-> trs[t], msgs |-> msgs]
           p == IF runs /\ CleanupApplies(trs[t])
                THEN PersistUpdated(pst, r.msgs, trs[t].chatId, trs[t].assistantMessageId)
                ELSE pst
       IN RunListeners(ts \ {t}, [trs EXCEPT ![t] = r.tr], r.msgs, p, c, clock)

\* controller.abort(): listeners run, then the pending fetch / read of every
\* turn using that signal rejects and the turn leaves through catch/finally
Abort(c, trs, msgs, pst, clock) ==
  IF c = NULL \/ c \in aborted
  THEN [turns |-> trs, msgs |-> msgs, pst |-> pst, exited |-> FALSE]
  ELSE LET r == RunListeners(Turns, trs, msgs, pst, c, clock)
           out == {t \in Turns : AbortsRequest(r.turns[t], c) \/ AbortsStream(r.turns[t], c)}
       IN [turns |-> [t \in Turns |->
                        IF t \in out THEN ExitTurn(r.turns[t], "aborted")
                        ELSE r.turns[t]],
           msgs |-> r.msgs,
           pst |-> r.pst,
           exited |-> out # {}]

\* ------------------------------------------------------- store, per action
\* finally { isSending = false; abortController = null } after a turn left
LeaveStore(exited, sending, ctl) ==
  [isSending |-> IF exited THEN FALSE ELSE sending,
   abortController |-> IF exited THEN NULL ELSE ctl]

\* the user message sendMessage adds before the request
UserMessage(id) == NewMessage(id, "user", <<"u">>, FALSE, UNDEF, FALSE)

\* the turn a new sendMessage call runs in: the first closure not yet used
NextTurn(t) == turns[t].pc = "idle" /\ \A u \in Turns : u < t => turns[u].pc # "idle"

\* ---------------------------------------------------------------- actions
\* sendMessage(chatId, content): the call, up to its first wait (the side
\* pipelines: link fetch, search, retrieval)
SendMessage(t, c) ==
  /\ NextTurn(t)
  /\ LET ab == Abort(abortController, turns, messages, persist, now)
         st == LeaveStore(ab.exited, TRUE, t)
     IN /\ turns' = [ab.turns EXCEPT ![t] = [ab.turns[t] EXCEPT !.chatId = c, !.pc = "side"]]
        /\ messages' = ab.msgs
        /\ persist' = ab.pst
        /\ isSending' = st.isSending
        /\ abortController' = st.abortController
        /\ aborted' = IF abortController # NULL THEN aborted \cup {abortController} ELSE aborted
  /\ UNCHANGED <<activeChatId, title, error, now, nextId>>
  /\ UNCHANGED reqVars

\* the checks at the top of sendMessage: the chat is found, this.models is
\* not empty, and there is text or an attachment
Accepts(c, hasModels, content, hasAttachment) ==
  /\ c \in Chats
  /\ hasModels
  /\ Trim(content) # <<>> \/ hasAttachment

\* sendMessage on arguments that fail a check: the throw is caught by the
\* catch of sendMessage, which sets this.error and throws again, and the
\* finally block runs
SendMessageRejected(c, hasModels, content, hasAttachment) ==
  /\ ~Accepts(c, hasModels, content, hasAttachment)
  /\ error' = "rejected"
  /\ isSending' = FALSE
  /\ abortController' = NULL
  /\ UNCHANGED <<messages, activeChatId, title, aborted, now, nextId, turns, persist>>
  /\ UNCHANGED reqVars

\* the side pipelines in the order sendMessage runs them
Pipelines == {"links", "search", "retrieval"}

\* the call of pipeline p is inside a try block of sendMessage
CaughtAtCall(p) == p \in {"links", "search"}

\* the call of a side pipeline rejects (fetchLinkContent, the search-query
\* request or searchBackend, searchRagFiles), the others return: a rejection
\* caught at the call leaves the turn going, another one leaves sendMessage
\* through its catch
SideThrows(t, p) ==
  /\ turns[t].pc = "side"
  /\ IF CaughtAtCall(p)
     THEN /\ turns' = [turns EXCEPT ![t].pc = "persistUser", ![t].sideFailure = p]
          /\ messages' = AddMessage(messages, turns[t].chatId, UserMessage(nextId))
          /\ persist' = PersistChatMeta(
                          PersistChatMessages(persist, turns[t].chatId, messages'),
                          turns[t].chatId, now)
          /\ nextId' = nextId + 1
          /\ UNCHANGED <<isSending, abortController, error>>
     ELSE /\ turns' = [turns EXCEPT ![t] =
                         ExitTurn([turns[t] EXCEPT !.sideFailure = p], "error")]
          /\ error' = "side"
          /\ isSending' = FALSE
          /\ abortController' = NULL
          /\ UNCHANGED <<messages, persist, nextId>>
  /\ UNCHANGED <<activeChatId, title, aborted, now>>
  /\ UNCHANGED reqVars

\* the side pipelines return: the user message is added and submitted
SideDone(t) ==
  /\ turns[t].pc = "side"
  /\ turns' = [turns EXCEPT ![t].pc = "persistUser"]
  /\ messages' = AddMessage(messages, turns[t].chatId, UserMessage(nextId))
  /\ persist' = PersistChatMeta(
                  PersistChatMessages(persist, turns[t].chatId, messages'),
                  turns[t].chatId, now)
  /\ nextId' = nextId + 1
  /\ UNCHANGED <<activeChatId, title, isSending, abortController, aborted, error, now>>
  /\ UNCHANGED reqVars

\* the writes return: the request body is built and fetch is called with
\* this.abortController.signal
IssueRequest(t) ==
  /\ turns[t].pc = "persistUser"
  /\ IF abortController = NULL
     THEN \* TypeError: this.abortController is null
          /\ turns' = [turns EXCEPT ![t] = ExitTurn(turns[t], "error")]
          /\ error' = "TypeError"
          /\ isSending' = FALSE
          /\ abortController' = NULL
     ELSE IF abortController \in aborted
     THEN \* fetch with a signal that has fired rejects with AbortError
          /\ turns' = [turns EXCEPT ![t] =
                         ExitTurn([turns[t] EXCEPT !.fetchSignal = abortController],
                                  "aborted")]
          /\ isSending' = FALSE
          /\ abortController' = NULL
          /\ UNCHANGED error
     ELSE /\ turns' = [turns EXCEPT ![t].pc = "fetch", ![t].fetchSignal = abortController]
          /\ UNCHANGED <<isSending, abortController, error>>
  /\ UNCHANGED <<messages, activeChatId, title, aborted, now, nextId, persist>>
  /\ UNCHANGED reqVars

\* the response arrives: the closure variables are set up and cleanup is
\* registered on this.abortController.signal
FetchResolve(t) ==
  /\ turns[t].pc = "fetch"
  /\ IF abortController = NULL
     THEN /\ turns' = [turns EXCEPT ![t] = ExitTurn(turns[t], "error")]
          /\ error' = "TypeError"
          /\ isSending' = FALSE
          /\ abortController' = NULL
     ELSE /\ turns' = [turns EXCEPT ![t].pc = "stream", ![t].listenerOn = abortController]
          /\ UNCHANGED <<isSending, abortController, error>>
  /\ UNCHANGED <<messages, activeChatId, title, aborted, now, nextId, persist>>
  /\ UNCHANGED reqVars

\* a transport failure that is not an abort: fetch or the stream read rejects
TransportError(t) ==
  /\ turns[t].pc \in {"fetch", "stream"}
  /\ turns' = [turns EXCEPT ![t] = ExitTurn(turns[t], "error")]
  /\ error' = "transport"
  /\ isSending' = FALSE
  /\ abortController' = NULL
  /\ UNCHANGED <<messages, activeChatId, title, aborted, now, nextId, persist>>
  /\ UNCHANGED reqVars

\* processStream reads one fragment and runs the callback on it
Deliver(t, f) ==
  /\ turns[t].pc = "stream"
  /\ LET r == OnData(turns[t], f, messages, now, nextId)
     IN /\ turns' = [turns EXCEPT ![t] = [r.tr EXCEPT !.delivered = Append(r.tr.delivered, f)]]
        /\ messages' = r.msgs
        /\ persist' = IF f.thinking # <<>> \/ f.content # <<>>
                       THEN PersistUpdated(persist, r.msgs, r.tr.chatId, r.tr.assistantMessageId)
                       ELSE persist
        /\ nextId' = r.nid
  /\ UNCHANGED <<activeChatId, title, isSending, abortController, aborted, error, now>>
  /\ UNCHANGED reqVars

\* a final update that keeps the duration recorded last
FinalThinkTimeKept(tr, msgs, clock) ==
  IF HasMessage(msgs, tr.chatId, tr.assistantMessageId)
  THEN MessageOf(msgs, tr.chatId, tr.assistantMessageId).thinkTime
  ELSE UNDEF

\* isInThinkBlock && thinkStartTime ? Date.now() - thinkStartTime
\*                                  : findById(chat.messages, id)?.thinkTime
FinalThinkTime(tr, msgs, clock) ==
  IF tr.isInThinkBlock /\ tr.thinkStartTime # NULL THEN clock - tr.thinkStartTime
  ELSE IF HasMessage(msgs, tr.chatId, tr.assistantMessageId)
       THEN MessageOf(msgs, tr.chatId, tr.assistantMessageId).thinkTime
  ELSE UNDEF

\* the stream ends: final update of the assistant message
StreamEnd(t) ==
  /\ turns[t].pc = "stream"
  /\ LET tr == turns[t]
         c == tr.chatId
         id == tr.assistantMessageId
     IN IF id # NULL
        THEN /\ turns' = [turns EXCEPT ![t] =
                            [(IF tr.thinkTimeInterval THEN ClearInterval(tr) ELSE tr)
                               EXCEPT !.pc = "final"]]
             /\ messages' = UpdateMessage(messages, c, id, tr.assistantContent, FALSE,
                                          FinalThinkTime(tr, messages, now), FALSE,
                                          Len(tr.assistantContent))
             /\ persist' = PersistChatMessages(
                             PersistUpdated(persist, messages', c, id), c, messages')
        ELSE /\ turns' = [turns EXCEPT ![t].pc = "final"]
             /\ UNCHANGED <<messages, persist>>
  /\ UNCHANGED <<activeChatId, title, isSending, abortController, aborted, error, now, nextId>>
  /\ UNCHANGED reqVars

\* a follow-up that runs only for a chat without a title
ShouldGenerateTitleWhenEmpty(t) == t = ""

\* shouldGenerateTitle
ShouldGenerateTitle(t) == t = "" \/ t = DefaultChatTitle

\* the rest of sendMessage after the final writes: the title follow-up
\* (generateChatTitle, which ends in renameChat), then finally
FinishWith(t, newTitle) ==
  /\ turns[t].pc = "final"
  /\ turns' = [turns EXCEPT ![t] = ExitTurn(turns[t], "ok")]
  /\ IF ShouldGenerateTitle(title[turns[t].chatId])
     THEN /\ title' = [title EXCEPT ![turns[t].chatId] = newTitle]
          /\ persist' = PersistChatTitle(persist, turns[t].chatId, newTitle)
     ELSE UNCHANGED <<title, persist>>
  /\ isSending' = FALSE
  /\ abortController' = NULL
  /\ UNCHANGED <<messages, activeChatId, aborted, error, now, nextId>>
  /\ UNCHANGED reqVars

\* the final writes and the title follow-up return: sendMessage returns
Finish(t) == FinishWith(t, "generated")

\* the title request throws: generateChatTitle catches and renames the chat
\* to the first words of its first message
TitleRequestFails(t) ==
  /\ ShouldGenerateTitle(title[turns[t].chatId])
  /\ FinishWith(t, "firstWords")

\* the setInterval callback of startThinkTimeUpdates fires
IntervalTick(t) ==
  /\ turns[t].timerRunning
  /\ LET tr == turns[t]
     IN IF tr.isInThinkBlock /\ tr.thinkStartTime # NULL /\ tr.assistantMessageId # NULL
        THEN /\ messages' = UpdateMessage(messages, tr.chatId, tr.assistantMessageId,
                               tr.assistantContent, TRUE, now - tr.thinkStartTime, TRUE, UNDEF)
             /\ persist' = PersistUpdated(persist, messages', tr.chatId, tr.assistantMessageId)
        ELSE UNCHANGED <<messages, persist>>
  /\ UNCHANGED <<activeChatId, title, isSending, abortController, aborted, error, now, nextId, turns>>
  /\ UNCHANGED reqVars

\* the stop button
StopGeneration ==
  /\ abortController # NULL
  /\ LET ab == Abort(abortController, turns, messages, persist, now)
         st == LeaveStore(ab.exited, FALSE, abortController)
         ms == ab.msgs[activeChatId]
     IN /\ turns' = ab.turns
        /\ IF Len(ms) > 0 /\ ms[Len(ms)].isLoading
           THEN /\ messages' = UpdateMessage(ab.msgs, activeChatId, ms[Len(ms)].id,
                                  ms[Len(ms)].content, FALSE, ms[Len(ms)].thinkTime,
                                  FALSE, UNDEF)
                /\ persist' = PersistUpdated(ab.pst, messages', activeChatId, ms[Len(ms)].id)
           ELSE /\ messages' = ab.msgs
                /\ persist' = ab.pst
        /\ isSending' = st.isSending
        /\ abortController' = st.abortController
  /\ aborted' = aborted \cup {abortController}
  /\ UNCHANGED <<activeChatId, title, error, now, nextId>>
  /\ UNCHANGED reqVars

\* a closure that has read the clock and may read it again
Measures(tr) ==
  /\ tr.thinkStartTime # NULL
  /\ \/ tr.pc \in {"stream", "final"}
     \/ tr.timerRunning
     \/ tr.listenerOn # NULL /\ tr.listenerOn \notin aborted

\* time passes; only the time between two readings of the clock is observable
Tick ==
  /\ now < MaxTime
  /\ \E t \in Turns : Measures(turns[t])
  /\ now' = now + 1
  /\ UNCHANGED <<messages, activeChatId, title, isSending, abortController, aborted, error,
                 nextId, turns, persist>>
  /\ UNCHANGED reqVars

\* the throttle window of kind k ends: the function is called on the
\* arguments of the last call of the window
WindowElapses(k) ==
  /\ persist.pending[k] # NoArgs
  /\ persist' = [persist EXCEPT !.written[k] = BackendWrite(k, persist.pending[k]),
                                !.db = BackendApply(@, k, persist.pending[k]),
                                !.pending[k] = NoArgs,
                                !.failed = @ \ {k}]
  /\ UNCHANGED <<messages, activeChatId, title, isSending, abortController, aborted, error,
                 now, nextId, turns>>
  /\ UNCHANGED reqVars

\* the turn waits in sendMessage for a write of kind k: the writes of the
\* user message, the updateMessage of the callback, the final writes
AwaitsWrite(tr, k) ==
  \/ tr.pc = "persistUser" /\ k \in {"list", "meta"}
  \/ tr.pc = "stream" /\ k = "message" /\ tr.assistantMessageId # NULL
  \/ tr.pc = "final" /\ k \in {"message", "list"} /\ tr.assistantMessageId # NULL

\* the throttle window of kind k ends and the backend write fails: the
\* request rejects inside saveMessage / replaceChatMessages / saveChatMeta.
\* When the rejection reaches persist*, its catch sets this.error and throws
\* again, and a sendMessage that awaits the write leaves through its catch.
WriteFails(k) ==
  /\ persist.followed
  /\ persist.pending[k] # NoArgs
  /\ persist' = [persist EXCEPT !.pending[k] = NoArgs, !.failed = @ \cup {k}]
  /\ LET out == {t \in Turns : persist.rethrows /\ AwaitsWrite(turns[t], k)}
     IN /\ turns' = [t \in Turns |->
                       IF t \in out THEN ExitTurn(turns[t], "error") ELSE turns[t]]
        /\ error' = IF persist.rethrows THEN "persist" ELSE error
        /\ isSending' = IF out # {} THEN FALSE ELSE isSending
        /\ abortController' = IF out # {} THEN NULL ELSE abortController
  /\ UNCHANGED <<messages, activeChatId, title, aborted, now, nextId>>
  /\ UNCHANGED reqVars

\* ------------------------------------------------------------- behaviours
Txt(ch) == <<ch>>

\* fragments of overlapping turns: answer text, and reasoning text on the
\* separate channel
Frags == {Fragment(<<>>, Txt("a")), Fragment(Txt("r"), <<>>)}

RECURSIVE DeliveredUpTo(_)
\* fragments delivered to the turns 1..n
DeliveredUpTo(n) == IF n = 0 THEN 0 ELSE Len(turns[n].delivered) + DeliveredUpTo(n - 1)

\* Overlapping turns of one chat; the UI shows that chat or another one.
Next ==
  \/ \E t \in Turns : SendMessage(t, "A")
  \/ \E t \in Turns : SideDone(t)
  \/ \E t \in Turns : IssueRequest(t)
  \/ \E t \in Turns : FetchResolve(t)
  \/ \E t \in Turns : TransportError(t)
  \/ \E t \in Turns, f \in Frags : DeliveredUpTo(MaxTurns) < MaxFrags /\ Deliver(t, f)
  \/ \E t \in Turns : StreamEnd(t)
  \/ \E t \in Turns : Finish(t)
  \/ \E t \in Turns : IntervalTick(t)
  \/ StopGeneration
  \/ Tick

Spec == Init /\ [][Next]_vars

\* A text longer than the tag buffer once an open marker precedes it
Filler == [i \in 1..(BufLen - 6) |-> "x"]

\* fragments of a single turn: tag-encoded text split at and inside markers,
\* channel-encoded reasoning, and a fragment that carries no text
FragsI ==
  {Fragment(<<>>, <<>>),
   Fragment(Txt("r"), <<>>),
   Fragment(<<>>, Txt("a")),
   Fragment(<<>>, T_OPEN),
   Fragment(<<>>, T_CLOSE),
   Fragment(<<>>, A_OPEN),
   Fragment(<<>>, A_CLOSE),
   Fragment(<<>>, <<"<", "t", "h">>),
   Fragment(<<>>, <<"i", "n", "k", ">", "r", "<", "/", "t", "h">>),
   Fragment(<<>>, <<"i", "n", "k", ">", "a">>),
   Fragment(<<>>, Filler)}

\* the chats buildOllamaRequestBody is called on: a history of at most
\* MaxHist messages whose texts differ, and the new user message
HistRoles == {"user", "assistant", "system"}
Kinds == {"plain", "withContext", "contextOnly"}
Entries == [role : HistRoles, kind : Kinds]
Histories == UNION {[1..n -> Entries] : n \in 0..MaxHist}

ContentOf(kind, i) ==
  IF kind = "plain" THEN <<ToString(i)>>
  ELSE IF kind = "withContext" THEN <<ToString(i), " ", CTX>>
  ELSE <<CTX>>

\* message i of the chat: the new user message sits after p history messages
ChatMessage(h, p, i) ==
  IF i = p + 1 THEN [id |-> Len(h) + 1, role |-> "user", content |-> <<"q", " ", CTX>>]
  ELSE LET j == IF i <= p THEN i ELSE i - 1
       IN [id |-> j, role |-> h[j].role, content |-> ContentOf(h[j].kind, j)]

\* p = -1: the chat does not have the user message
ChatMessages(h, p) ==
  IF p = -1 THEN [i \in 1..Len(h) |-> ChatMessage(h, Len(h) + 1, i)]
  ELSE [i \in 1..(Len(h) + 1) |-> ChatMessage(h, p, i)]

\* where the new user message sits: last, before a message that a turn
\* running at the same time has added, or nowhere
Places(h) == {-1, Len(h)} \cup (IF Len(h) > 0 THEN {Len(h) - 1} ELSE {})

\* a text that is absent or present
Texts(ch) == {<<>>, <<ch>>}

InitB ==
  /\ messages = [c \in Chats |-> <<>>]
  /\ activeChatId = "A"
  /\ title = [c \in Chats |-> DefaultChatTitle]
  /\ isSending = FALSE
  /\ abortController = NULL
  /\ aborted = {}
  /\ error = "null"
  /\ now = 1
  /\ nextId = 1
  /\ turns = [t \in Turns |-> IdleTurn]
  /\ persist = NotFollowed
  /\ \E h \in Histories, m \in 0..MaxM :
       \E p \in Places(h), sys \in Texts("s"), mem \in Texts("m"),
          fin \in {<<" ">>, <<"q", " ">>} :
         input = [chat |-> "ok", selectedModel |-> "m", attachment |-> "none",
                  systemPrompt |-> sys, memoryContent |-> mem,
                  messages |-> ChatMessages(h, p),
                  userMessageId |-> Len(h) + 1, finalContent |-> fin,
                  maxMessages |-> m]
  /\ output = NoOutput

\* the call
BuildRequest ==
  /\ output.status = "none"
  /\ output' = BuildOllamaRequestBody(input)
  /\ input' = [input EXCEPT !.messages = StoredAfterBuild(input)]
  /\ UNCHANGED storeVars

NextB == BuildRequest

\* buildOllamaRequestBody on every chat and setting
SpecB == InitB /\ [][NextB]_vars

\* One turn, the stop button and the throttled writes.
NextP ==
  \/ SendMessage(1, "A")
  \/ SideDone(1)
  \/ IssueRequest(1)
  \/ FetchResolve(1)
  \/ TransportError(1)
  \/ \E f \in Frags : Len(turns[1].delivered) < MaxFragsP /\ Deliver(1, f)
  \/ StreamEnd(1)
  \/ Finish(1)
  \/ IntervalTick(1)
  \/ StopGeneration
  \/ Tick
  \/ \E k \in WriteKinds : WindowElapses(k)

\* the state after construction, the writes being followed
InitP ==
  /\ messages = [c \in Chats |-> <<>>]
  /\ activeChatId \in Chats
  /\ title = [c \in Chats |-> DefaultChatTitle]
  /\ isSending = FALSE
  /\ abortController = NULL
  /\ aborted = {}
  /\ error = "null"
  /\ now = 1
  /\ nextId = 1
  /\ turns = [t \in Turns |-> IdleTurn]
  /\ persist = NoWrites
  /\ input = NoInput
  /\ output = NoOutput

SpecP == InitP /\ [][NextP]_vars

\* every throttle window ends
SpecPF == SpecP /\ \A k \in WriteKinds : WF_vars(WindowElapses(k))

\* One turn whose writes can fail.
NextW ==
  \/ NextP
  \/ \E k \in WriteKinds : WriteFails(k)

\* the state after construction; a failed write rejects the awaited promise
\* or does not
InitW ==
  /\ messages = [c \in Chats |-> <<>>]
  /\ activeChatId \in Chats
  /\ title = [c \in Chats |-> DefaultChatTitle]
  /\ isSending = FALSE
  /\ abortController = NULL
  /\ aborted = {}
  /\ error = "null"
  /\ now = 1
  /\ nextId = 1
  /\ turns = [t \in Turns |-> IdleTurn]
  /\ persist \in {[NoWrites EXCEPT !.rethrows = b] : b \in BOOLEAN}
  /\ input = NoInput
  /\ output = NoOutput

SpecW == InitW /\ [][NextW]_vars

\* the arguments of a sendMessage call: a chat id, whether this.models has
\* an entry, the text, whether there is an attachment
CallChats == Chats \cup {"none"}
CallTexts == {<<>>, <<" ">>, <<"u">>}

\* One turn, and calls of sendMessage that fail a check.
NextV ==
  \/ SendMessage(1, "A")
  \/ SideDone(1)
  \/ IssueRequest(1)
  \/ FetchResolve(1)
  \/ \E f \in Frags : Len(turns[1].delivered) < MaxFragsP /\ Deliver(1, f)
  \/ StreamEnd(1)
  \/ Finish(1)
  \/ \E c \in CallChats, hasModels \in BOOLEAN, content \in CallTexts,
          hasAttachment \in BOOLEAN :
       SendMessageRejected(c, hasModels, content, hasAttachment)

SpecV == Init /\ [][NextV]_vars

\* titles a chat can have when a turn starts
Titles == {"", DefaultChatTitle, "custom"}

\* the state after construction of a store whose chats were loaded
InitT ==
  /\ messages = [c \in Chats |-> <<>>]
  /\ activeChatId \in Chats
  /\ title \in [Chats -> Titles]
  /\ isSending = FALSE
  /\ abortController = NULL
  /\ aborted = {}
  /\ error = "null"
  /\ now = 1
  /\ nextId = 1
  /\ turns = [t \in Turns |-> IdleTurn]
  /\ persist = NotFollowed
  /\ input = NoInput
  /\ output = NoOutput

\* One turn with its side pipelines and its title follow-up.
NextT ==
  \/ SendMessage(1, "A")
  \/ SideDone(1)
  \/ \E p \in Pipelines : SideThrows(1, p)
  \/ IssueRequest(1)
  \/ FetchResolve(1)
  \/ TransportError(1)
  \/ \E f \in Frags : Len(turns[1].delivered) < MaxFragsP /\ Deliver(1, f)
  \/ StreamEnd(1)
  \/ Finish(1)
  \/ TitleRequestFails(1)
  \/ StopGeneration

SpecT == InitT /\ [][NextT]_vars

\* the readings of a non-decreasing clock a turn gives to its metrics: the
\* request start, the first fragment if there was one, the present
InitM ==
  /\ messages = [c \in Chats |-> <<>>]
  /\ activeChatId = "A"
  /\ title = [c \in Chats |-> DefaultChatTitle]
  /\ isSending = FALSE
  /\ abortController = NULL
  /\ aborted = {}
  /\ error = "null"
  /\ now = 1
  /\ nextId = 1
  /\ turns = [t \in Turns |-> IdleTurn]
  /\ persist = NotFollowed
  /\ \E r \in 1..MaxClock, f \in {NULL} \cup 1..MaxClock, n \in 1..MaxClock,
        chars \in 0..MaxChars :
       /\ r <= n
       /\ f # NULL => (r <= f /\ f <= n)
       /\ input = [requestStartTime |-> r, firstTokenTime |-> f, clock |-> n,
                   outputChars |-> chars]
  /\ output = NoOutput

\* the metrics are computed
ComputeMetrics ==
  /\ output = NoOutput
  /\ output' = [status |-> "metrics",
                extra |-> Metrics(input.requestStartTime, input.firstTokenTime,
                                  input.clock, input.outputChars)]
  /\ UNCHANGED <<storeVars, input>>

NextM == ComputeMetrics

\* the metrics on every reading of the clock
SpecM == InitM /\ [][NextM]_vars

\* the chat argument: a chat, no chat, a chat without a message list
ChatArgs == {"ok", "null", "noMessages"}
\* the attachment argument: none, a text file, an image, an image without
\* content
Attachments == {"none", "text", "image", "imageNoContent"}

\* calls of buildOllamaRequestBody on every chat argument, model id and
\* attachment, for a user message that is in the chat or not
InitE ==
  /\ messages = [c \in Chats |-> <<>>]
  /\ activeChatId = "A"
  /\ title = [c \in Chats |-> DefaultChatTitle]
  /\ isSending = FALSE
  /\ abortController = NULL
  /\ aborted = {}
  /\ error = "null"
  /\ now = 1
  /\ nextId = 1
  /\ turns = [t \in Turns |-> IdleTurn]
  /\ persist = NotFollowed
  /\ \E h \in {<<>>, <<[role |-> "assistant", kind |-> "plain"]>>} :
       \E p \in Places(h), chat \in ChatArgs, model \in {"", "m"},
          att \in Attachments :
         input = [chat |-> chat, selectedModel |-> model, attachment |-> att,
                  systemPrompt |-> <<>>, memoryContent |-> <<>>,
                  messages |-> ChatMessages(h, p),
                  userMessageId |-> Len(h) + 1, finalContent |-> <<"q">>,
                  maxMessages |-> 0]
  /\ output = NoOutput

\* buildOllamaRequestBody on well-formed and malformed arguments
SpecE == InitE /\ [][NextB]_vars

\* lengths of the text of a section: none, short, and around its cap
LengthsOf(section) ==
  {0, 1} \cup {CapOf(section) + d : d \in (0 - 1)..MaxOver}

\* the texts the side pipelines and the attachment give to a turn, by length
InitC ==
  /\ messages = [c \in Chats |-> <<>>]
  /\ activeChatId = "A"
  /\ title = [c \in Chats |-> DefaultChatTitle]
  /\ isSending = FALSE
  /\ abortController = NULL
  /\ aborted = {}
  /\ error = "null"
  /\ now = 1
  /\ nextId = 1
  /\ turns = [t \in Turns |-> IdleTurn]
  /\ persist = NotFollowed
  /\ \E lens \in [Sections -> UNION {LengthsOf(section) : section \in Sections}] :
       /\ \A section \in Sections : lens[section] \in LengthsOf(section)
       /\ input = [lengths |-> lens]
  /\ output = NoOutput

\* the context blocks are built; the state keeps the length of each body
BuildContext ==
  /\ output = NoOutput
  /\ LET bodies == ContextBodies([section \in Sections |-> Chars(input.lengths[section])])
     IN output' = [status |-> "context",
                   lengths |-> [section \in Sections |-> Len(bodies[section])]]
  /\ UNCHANGED <<storeVars, input>>

NextC == BuildContext

\* the context blocks on texts of every length
SpecC == InitC /\ [][NextC]_vars

\* Turns of either chat, from the call to the end of the stream.
NextX ==
  \/ \E t \in Turns, c \in Chats : SendMessage(t, c)
  \/ \E t \in Turns : SideDone(t)
  \/ \E t \in Turns : IssueRequest(t)
  \/ \E t \in Turns : FetchResolve(t)
  \/ \E t \in Turns, f \in Frags : DeliveredUpTo(MaxTurns) < MaxFrags /\ Deliver(t, f)
  \/ \E t \in Turns : StreamEnd(t)
  \/ \E t \in Turns : Finish(t)

SpecX == Init /\ [][NextX]_vars

\* One turn and its response stream.
NextI ==
  \/ SendMessage(1, "A")
  \/ SideDone(1)
  \/ IssueRequest(1)
  \/ FetchResolve(1)
  \/ \E f \in FragsI : Len(turns[1].delivered) < MaxFragsI /\ Deliver(1, f)
  \/ StreamEnd(1)
  \/ Finish(1)
  \/ IntervalTick(1)
  \/ Tick

SpecI == Init /\ [][NextI]_vars

\* ------------------------------------------------ rewriting the history
\* contextForUi: the collapsible block sendMessage appends to the stored
\* user message when a side pipeline or a text attachment gave a context
ContextForUi(ctx) == IF ctx THEN <<"\n", "\n", CTX>> ELSE <<>>

\* contextForModel: the plain text appended for the model
ContextForModel(ctx) == IF ctx THEN <<"\n", "\n", "[context]">> ELSE <<>>

\* the arguments sendMessage gives to buildOllamaRequestBody
RequestInput(msgs, userMessageId, finalContentForModel) ==
  [NoInput EXCEPT
     !.selectedModel = "m",
     !.messages = [i \in DOMAIN msgs |->
                     [id |-> msgs[i].id, role |-> msgs[i].role, content |-> msgs[i].content]],
     !.userMessageId = userMessageId,
     !.finalContent = finalContentForModel]

\* chat.messages.findIndex(m => m.id === id), 0 when there is none
FindIndex(msgs, id) ==
  IF \E i \in DOMAIN msgs : msgs[i].id = id
  THEN CHOOSE i \in DOMAIN msgs : msgs[i].id = id
  ELSE 0

\* chat.messages.slice(index).map(m => m.id), index counted from 1
IdsFrom(msgs, index) == {msgs[i].id : i \in index..Len(msgs)}

\* the deleteMessage mutation of api/chats.ts
DeleteMessages(pst, ids) ==
  IF ~pst.followed THEN pst
  ELSE [pst EXCEPT !.deleted = @ \cup ids,
                   !.db.messages = [c \in Chats |->
                                      SelectSeq(@[c], LAMBDA m : m.id \notin ids)]]

\* chat.messages = chat.messages.slice(0, index), then deleteMessage,
\* persistChatMessages and persistChatMeta
CutAndPersist(pst, msgs, c, index, clock) ==
  LET cut == [msgs EXCEPT ![c] = SubSeq(@, 1, index - 1)]
  IN [msgs |-> cut,
      pst |-> PersistChatMeta(
                PersistChatMessages(DeleteMessages(pst, IdsFrom(msgs[c], index)), c, cut),
                c, clock)]

\* a handler returns after setting this.error, or sets it and throws
FailsWith(message) ==
  /\ error' = message
  /\ UNCHANGED <<messages, activeChatId, title, isSending, abortController, aborted,
                 now, nextId, turns, persist>>
  /\ UNCHANGED reqVars

\* sendMessage(c, content) called by a handler that leaves the messages as
\* msgs and the writes as pst, followed up to the call of fetch: the checks,
\* the abort of the controller in the store, the user message with its
\* context block, its writes, the request body. A call that fails a check
\* leaves through catch and finally; so does the fetch of a call whose
\* controller the finally of the invocation it aborted has cleared.
SendAndRequest(c, content, hasModels, ctx, msgs, pst) ==
  IF ~Accepts(c, hasModels, content, FALSE)
  THEN /\ messages' = msgs
       /\ persist' = pst
       /\ error' = "rejected"
       /\ isSending' = FALSE
       /\ abortController' = NULL
       /\ UNCHANGED <<activeChatId, title, aborted, now, nextId, turns>>
       /\ UNCHANGED reqVars
  ELSE \E t \in Turns :
         LET ab == Abort(abortController, turns, msgs, pst, now)
             finalContent == Trim(content)
             user == NewMessage(nextId, "user", Trim(finalContent \o ContextForUi(ctx)),
                                FALSE, UNDEF, FALSE)
             added == AddMessage(ab.msgs, c, user)
             started == [ab.turns[t] EXCEPT !.chatId = c]
         IN /\ NextTurn(t)
            /\ messages' = added
            /\ nextId' = nextId + 1
            /\ persist' = PersistChatMeta(PersistChatMessages(ab.pst, c, added), c, now)
            /\ input' = RequestInput(added[c], nextId,
                                     Trim(finalContent \o ContextForModel(ctx)))
            /\ output' = BuildOllamaRequestBody(input')
            /\ aborted' = IF abortController # NULL THEN aborted \cup {abortController}
                          ELSE aborted
            /\ IF ab.exited
               THEN /\ turns' = [ab.turns EXCEPT ![t] = ExitTurn(started, "error")]
                    /\ error' = "TypeError"
                    /\ isSending' = FALSE
                    /\ abortController' = NULL
               ELSE /\ turns' = [ab.turns EXCEPT ![t] =
                                   [started EXCEPT !.pc = "fetch", !.fetchSignal = t]]
                    /\ isSending' = TRUE
                    /\ abortController' = t
                    /\ UNCHANGED error
            /\ UNCHANGED <<activeChatId, title, now>>

\* sendMessage from the input form
SendTyped(c, content, hasModels, ctx) ==
  SendAndRequest(c, content, hasModels, ctx, messages, persist)

\* regenerateMessage(c, id)
RegenerateMessage(c, id, hasModels, ctx) ==
  IF c \notin Chats THEN FailsWith("Chat not found")
  ELSE LET index == FindIndex(messages[c], id)
       IN IF index = 0 \/ messages[c][index].role # "assistant"
          THEN FailsWith("Assistant message not found")
          ELSE IF index = 1 \/ messages[c][index - 1].role # "user"
          THEN FailsWith("No preceding user message found")
          ELSE LET cut == CutAndPersist(persist, messages, c, index - 1, now)
               IN SendAndRequest(c, messages[c][index - 1].content, hasModels, ctx,
                                 cut.msgs, cut.pst)

\* editMessage(c, id, newContent, dropFollowing)
EditMessage(c, id, newContent, dropFollowing, hasModels, ctx) ==
  IF c \notin Chats THEN FailsWith("Chat not found")
  ELSE LET index == FindIndex(messages[c], id)
       IN IF index = 0 THEN FailsWith("Message not found")
          ELSE IF messages[c][index].role # "user"
          THEN FailsWith("Cannot edit non-user message")
          ELSE IF dropFollowing
          THEN LET cut == CutAndPersist(persist, messages, c, index, now)
               IN SendAndRequest(c, newContent, hasModels, ctx, cut.msgs, cut.pst)
          ELSE /\ messages' = [messages EXCEPT ![c][index].content = newContent]
               /\ persist' = PersistMessage(persist, c, messages'[c][index])
               /\ UNCHANGED <<activeChatId, title, isSending, abortController, aborted,
                              error, now, nextId, turns>>
               /\ UNCHANGED reqVars

\* deleteMessage(c, id)
DeleteMessage(c, id) ==
  IF c \notin Chats THEN FailsWith("Chat not found")
  ELSE LET index == FindIndex(messages[c], id)
       IN IF index = 0 THEN FailsWith("Message not found")
          ELSE LET cut == CutAndPersist(persist, messages, c, index, now)
               IN /\ messages' = cut.msgs
                  /\ persist' = cut.pst
                  /\ UNCHANGED <<activeChatId, title, isSending, abortController, aborted,
                                 error, now, nextId, turns>>
                  /\ UNCHANGED reqVars

\* the stored chats the handlers are called on: user and assistant messages,
\* a user message with or without the context block of its turn
Dialogues ==
  {h \in Histories :
     \A i \in DOMAIN h :
       /\ h[i].role # "system"
       /\ h[i].kind # "contextOnly"
       /\ h[i].role = "assistant" => h[i].kind = "plain"}

\* chat.messages of a chat loaded with the history h
LoadedChat(h) ==
  [i \in DOMAIN h |-> NewMessage(i, h[i].role, ContentOf(h[i].kind, i), FALSE, UNDEF, FALSE)]

\* a chat with a history
InitR ==
  /\ \E h \in Dialogues :
       /\ messages = [c \in Chats |-> IF c = "A" THEN LoadedChat(h) ELSE <<>>]
       /\ nextId = Len(h) + 1
  /\ activeChatId = "A"
  /\ title = [c \in Chats |-> DefaultChatTitle]
  /\ isSending = FALSE
  /\ abortController = NULL
  /\ aborted = {}
  /\ error = "null"
  /\ now = 1
  /\ turns = [t \in Turns |-> IdleTurn]
  /\ persist = NotFollowed
  /\ input = NoInput
  /\ output = NoOutput

\* the message ids a handler is called with: those of the chat and one more
CallIds == 1..nextId

\* what the edit box of message id can hold: the stored content
\* (editedContent = props.message.content), or a new text
EditTexts(c, id) ==
  {<<"e">>} \cup (IF c \in Chats
                  THEN {messages[c][i].content :
                          i \in {j \in DOMAIN messages[c] : messages[c][j].id = id}}
                  ELSE {})

\* the chat ids the handlers are called with: the chat with the history,
\* and an id no chat has
HandlerChats == {"A", "none"}

\* The handlers that rewrite the history of a chat and start a turn.
NextR ==
  \/ \E hasModels, ctx \in BOOLEAN : SendTyped("A", <<"q">>, hasModels, ctx)
  \/ \E c \in HandlerChats, id \in CallIds, hasModels, ctx \in BOOLEAN :
       RegenerateMessage(c, id, hasModels, ctx)
  \/ \E c \in HandlerChats, id \in CallIds, dropFollowing, hasModels, ctx \in BOOLEAN :
       \E newContent \in EditTexts(c, id) :
         EditMessage(c, id, newContent, dropFollowing, hasModels, ctx)
  \/ \E c \in HandlerChats, id \in CallIds : DeleteMessage(c, id)

SpecR == InitR /\ [][NextR]_vars

\* Turns of one chat that follow each other, and the throttled writes.
NextQ ==
  \/ \E t \in Turns : SendMessage(t, "A")
  \/ \E t \in Turns : SideDone(t)
  \/ \E t \in Turns : IssueRequest(t)
  \/ \E t \in Turns : FetchResolve(t)
  \/ \E t \in Turns : DeliveredUpTo(MaxTurns) < MaxFrags /\ Deliver(t, Fragment(<<>>, Txt("a")))
  \/ \E t \in Turns : StreamEnd(t)
  \/ \E t \in Turns : Finish(t)
  \/ StopGeneration
  \/ \E k \in WriteKinds : WindowElapses(k)

SpecQ == InitP /\ [][NextQ]_vars

\* the stored chats whose user messages have no context block
PlainDialogues == {h \in Dialogues : \A i \in DOMAIN h : h[i].kind = "plain"}

\* a chat with a history that the backend holds as well
InitD ==
  /\ \E h \in PlainDialogues :
       /\ messages = [c \in Chats |-> IF c = "A" THEN LoadedChat(h) ELSE <<>>]
       /\ nextId = Len(h) + 1
       /\ persist = [NoWrites EXCEPT
                       !.db.messages["A"] =
                         [i \in DOMAIN h |-> Serializable(LoadedChat(h)[i])]]
  /\ activeChatId = "A"
  /\ title = [c \in Chats |-> DefaultChatTitle]
  /\ isSending = FALSE
  /\ abortController = NULL
  /\ aborted = {}
  /\ error = "null"
  /\ now = 1
  /\ turns = [t \in Turns |-> IdleTurn]
  /\ input = NoInput
  /\ output = NoOutput

\* One turn, the stop button, and deleteMessage called at any moment.
NextD ==
  \/ SendMessage(1, "A")
  \/ SideDone(1)
  \/ IssueRequest(1)
  \/ FetchResolve(1)
  \/ \E f \in Frags : Len(turns[1].delivered) < MaxFragsP /\ Deliver(1, f)
  \/ StreamEnd(1)
  \/ Finish(1)
  \/ IntervalTick(1)
  \/ StopGeneration
  \/ \E c \in HandlerChats, id \in CallIds : DeleteMessage(c, id)

SpecD == InitD /\ [][NextD]_vars

\* --------------------------------------------------------- waitForBackend
\* the loop test of waitForBackend: attempt <= maxRetries
LoopTest(o, maxRetries) ==
  IF o.attempt <= maxRetries THEN [o EXCEPT !.phase = "check"]
  ELSE [o EXCEPT !.status = "returned", !.phase = "none"]

\* the arguments of a call of waitForBackend
InitH ==
  /\ messages = [c \in Chats |-> <<>>]
  /\ activeChatId = "A"
  /\ title = [c \in Chats |-> DefaultChatTitle]
  /\ isSending = FALSE
  /\ abortController = NULL
  /\ aborted = {}
  /\ error = "null"
  /\ now = 1
  /\ nextId = 1
  /\ turns = [t \in Turns |-> IdleTurn]
  /\ persist = NotFollowed
  /\ \E n \in 0..MaxRetries, d \in {0, DefaultDelay} :
       input = [maxRetries |-> n, delay |-> d]
  /\ output = NoOutput

\* the call: attempt = 1 and the first loop test
WaitForBackend ==
  /\ output = NoOutput
  /\ output' = LoopTest([status |-> "running", phase |-> "none", attempt |-> 1,
                         checks |-> 0, waits |-> 0, waited |-> 0, succeeded |-> FALSE],
                        input.maxRetries)
  /\ UNCHANGED <<storeVars, input>>

\* await checkBackendHealth() resolves (ok) or rejects
HealthCheck(ok) ==
  /\ output.status = "running"
  /\ output.phase = "check"
  /\ output' =
       LET o == [output EXCEPT !.checks = @ + 1]
       IN IF ok THEN [o EXCEPT !.status = "returned", !.phase = "none", !.succeeded = TRUE]
          ELSE IF o.attempt = input.maxRetries
          THEN [o EXCEPT !.status = "thrown", !.phase = "none"]
          ELSE [o EXCEPT !.phase = "wait"]
  /\ UNCHANGED <<storeVars, input>>

\* the timer of the delay fires: attempt++ and the loop test
DelayElapses ==
  /\ output.status = "running"
  /\ output.phase = "wait"
  /\ output' = LoopTest([output EXCEPT !.attempt = @ + 1, !.waits = @ + 1,
                                       !.waited = @ + input.delay],
                        input.maxRetries)
  /\ UNCHANGED <<storeVars, input>>

NextH ==
  \/ WaitForBackend
  \/ \E ok \in BOOLEAN : HealthCheck(ok)
  \/ DelayElapses

\* waitForBackend on every number of retries and every backend
SpecH == InitH /\ [][NextH]_vars

\* ================================================================= claims
\* the turn's own controller (created in its sendMessage call) has fired
OwnSignalFired(t) == t \in aborted

\* the assistant message of turn t, when the chat still has it
HasAssistant(t, msgs) ==
  /\ turns[t].assistantMessageId # NULL
  /\ HasMessage(msgs, turns[t].chatId, turns[t].assistantMessageId)
Assistant(t, msgs) == MessageOf(msgs, turns[t].chatId, turns[t].assistantMessageId)

\* the step makes turn t leave sendMessage
Exits(t) == turns[t].pc # "done" /\ turns'[t].pc = "done"

\* C1: a turn whose controller was aborted by a later sendMessage never
\* issues the streaming request nor streams afterwards, and two turns of one
\* chat never wait for or consume a response stream at the same time.
C1_SingleFlight ==
  /\ \A t \in Turns : OwnSignalFired(t) => turns[t].pc \notin {"fetch", "stream"}
  /\ \A t, u \in Turns :
       (t # u /\ turns[t].chatId = turns[u].chatId)
         => ~(turns[t].pc \in {"fetch", "stream"} /\ turns[u].pc \in {"fetch", "stream"})

\* C2: when a turn leaves sendMessage (stream end, cancellation or error),
\* the assistant message it created has isLoading = false.
C2_NotLoadingOnExit ==
  [][\A t \in Turns :
       (Exits(t) /\ HasAssistant(t, messages'))
         => ~Assistant(t, messages').isLoading]_vars

\* C3: after a turn has left sendMessage its reasoning tick is stopped.
C3_TickStoppedOnExit ==
  \A t \in Turns : turns[t].pc = "done" => ~turns[t].timerRunning

\* C4: a turn that fails with a transport error after some fragments keeps
\* its assistant message, with the accumulated content and isLoading = false.
C4_ErrorKeepsPartial ==
  [][\A t \in Turns :
       (Exits(t) /\ turns'[t].outcome = "error" /\ turns[t].assistantMessageId # NULL)
         => /\ error' # "null"
            /\ HasAssistant(t, messages')
            /\ Assistant(t, messages').content = turns[t].assistantContent
            /\ ~Assistant(t, messages').isLoading]_vars

\* a turn that was cancelled while streaming in Reasoning with a message
CancelledInReasoning(tr) ==
  tr.outcome = "aborted" /\ tr.isInThinkBlock /\ tr.assistantMessageId # NULL

\* C5: a turn cancelled in Reasoning leaves its assistant message with
\* isThinking = false, isLoading = false and thinkTime = the time elapsed
\* since reasoning began, and nothing changes that message afterwards.
C5_CancelInReasoning ==
  [][\A t \in Turns :
       /\ (Exits(t) /\ CancelledInReasoning(turns'[t]) /\ HasAssistant(t, messages'))
            => /\ ~Assistant(t, messages').isThinking
               /\ ~Assistant(t, messages').isLoading
               /\ Assistant(t, messages').thinkTime = now - turns[t].thinkStartTime
       /\ (CancelledInReasoning(turns[t]) /\ HasAssistant(t, messages) /\ HasAssistant(t, messages'))
            => Assistant(t, messages') = Assistant(t, messages)]_vars

\* C5 witness: a turn was cancelled in Reasoning after time had passed
C5_Witness ==
  \E t \in Turns :
    /\ CancelledInReasoning(turns[t])
    /\ HasAssistant(t, messages)
    /\ Assistant(t, messages).thinkTime >= 1
    /\ ~Assistant(t, messages).isLoading

\* C6: a turn whose signal was aborted never ends as an error.
C6_AbortIsNotAnError ==
  \A t \in Turns : OwnSignalFired(t) => turns[t].outcome # "error"

\* C7: after the abort signal of a turn has fired, the turn appends no
\* fragment and creates no assistant message.
C7_NoFragmentAfterAbort ==
  [][\A t \in Turns :
       OwnSignalFired(t)
         => /\ turns'[t].assistantContent = turns[t].assistantContent
            /\ turns'[t].assistantMessageId = turns[t].assistantMessageId
            /\ turns'[t].delivered = turns[t].delivered]_vars

\* ------------------------------------------------ claims on one response
RECURSIVE ConcatContent(_)
\* the answer texts of the fragments, joined
ConcatContent(d) ==
  IF d = <<>> THEN <<>> ELSE d[1].content \o ConcatContent(Tail(d))

\* every fragment delivered so far carries answer text only
TagEncoded(d) == \A i \in DOMAIN d : d[i].thinking = <<>>

\* the closure after the whole text was fed as one fragment to a fresh turn
FedWhole(text) ==
  OnData([IdleTurn EXCEPT !.pc = "stream"], Fragment(<<>>, text),
         [c \in Chats |-> <<>>], now, 1).tr

\* C8: however a tag-encoded text is split into fragments, the accumulated
\* content and the interpreter mode after the last fragment are those
\* obtained by feeding the whole text as one fragment.
C8_SplitInvariant ==
  \A t \in Turns :
    TagEncoded(turns[t].delivered)
      => /\ turns[t].assistantContent = FedWhole(ConcatContent(turns[t].delivered)).assistantContent
         /\ turns[t].isInThinkBlock = FedWhole(ConcatContent(turns[t].delivered)).isInThinkBlock

\* the step delivers a fragment to turn t
Delivers(t) == Len(turns'[t].delivered) = Len(turns[t].delivered) + 1
Delivered(t) == turns'[t].delivered[Len(turns'[t].delivered)]

\* the interpreter of turn t entered Reasoning on an inline open marker
InlineMarkerSeen(tr) == ~tr.usesThinkingField /\ tr.thinkStartTime # NULL

\* C9 (channel first): once a reasoning-channel fragment has been observed
\* the turn stays channel-encoded, and an answer fragment leaves the
\* interpreter in Answering whatever markers its text contains.
C9_ChannelStep(t) ==
  /\ turns[t].usesThinkingField => turns'[t].usesThinkingField
  /\ (turns[t].usesThinkingField /\ Delivers(t) /\ Delivered(t).thinking = <<>>
        /\ Delivered(t).content # <<>>)
       => /\ ~turns'[t].isInThinkBlock
          /\ turns'[t].thinkTagBuffer = turns[t].thinkTagBuffer

\* C9 (tag first): once an inline open marker has been observed, a
\* reasoning-channel fragment neither changes the mode nor synthesizes a marker.
C9_TagStep(t) ==
  (InlineMarkerSeen(turns[t]) /\ Delivers(t) /\ Delivered(t).thinking # <<>>)
    => /\ turns'[t].isInThinkBlock = turns[t].isInThinkBlock
       /\ turns'[t].assistantContent = turns[t].assistantContent \o Delivered(t).thinking

\* C9 as claimed: the first classification signal fixes the encoding, both ways.
C9_EncodingFixedByFirstSignal ==
  [][\A t \in Turns : C9_TagStep(t) /\ C9_ChannelStep(t)]_vars

\* C9 as amended: only the reasoning channel latches.
C9_ChannelLatches == [][\A t \in Turns : C9_ChannelStep(t)]_vars

\* C9 witness: an answer fragment with an inline open marker arrived after a
\* reasoning-channel fragment
C9_Witness ==
  \E t \in Turns : \E i, j \in DOMAIN turns[t].delivered :
    /\ i < j
    /\ turns[t].delivered[i].thinking # <<>>
    /\ SomeIncluded(THINK_OPEN_TAGS, turns[t].delivered[j].content)
    /\ j = Len(turns[t].delivered)
    /\ ~turns[t].isInThinkBlock

RECURSIVE ChannelEncoded(_, _)
\* the uniform representation of a channel-encoded stream: one open marker
\* before the first reasoning fragment of a run, one close marker before the
\* first answer fragment after it
ChannelEncoded(d, reasoning) ==
  IF d = <<>> THEN <<>>
  ELSE IF d[1].thinking # <<>>
       THEN (IF reasoning THEN <<>> ELSE T_OPEN) \o d[1].thinking \o ChannelEncoded(Tail(d), TRUE)
  ELSE IF d[1].content # <<>>
       THEN (IF reasoning THEN T_CLOSE ELSE <<>>) \o d[1].content \o ChannelEncoded(Tail(d), FALSE)
  ELSE ChannelEncoded(Tail(d), reasoning)

\* the places of s where the marker tag begins
PlacesOf(s, tag) ==
  {i \in 1..Len(s) :
     i + Len(tag) - 1 <= Len(s) /\ SubSeq(s, i, i + Len(tag) - 1) = tag}

\* reading s from the left, open and close markers alternate, open first
\* (close first when a segment is open at the start)
MarkersAlternate(s, open) ==
  LET opens == PlacesOf(s, T_OPEN)
      closes == PlacesOf(s, T_CLOSE)
      OpenDue(p) == (Cardinality({q \in opens \cup closes : q < p}) % 2 = 0) # open
  IN /\ \A p \in opens : OpenDue(p)
     /\ \A p \in closes : ~OpenDue(p)

\* no fragment text contains a marker character: the turn is channel-encoded
ChannelOnly(d) ==
  \A i \in DOMAIN d :
    /\ \A k \in DOMAIN d[i].content : d[i].content[k] # "<"
    /\ \A k \in DOMAIN d[i].thinking : d[i].thinking[k] # "<"

IsDuration(x) == x = UNDEF \/ x >= 0

\* turn t has its assistant message before and after the step
KeepsAssistant(t) == HasAssistant(t, messages) /\ HasAssistant(t, messages')

\* the interpreter of turn t stays in the same reasoning segment over the step
StaysInReasoning(t) ==
  /\ turns[t].isInThinkBlock /\ turns'[t].isInThinkBlock
  /\ turns'[t].thinkStartTime = turns[t].thinkStartTime

\* thinkTime is a duration and does not decrease within a reasoning segment
C11_Monotone(t) ==
  /\ HasAssistant(t, messages') => IsDuration(Assistant(t, messages').thinkTime)
  /\ (KeepsAssistant(t) /\ StaysInReasoning(t))
       => Assistant(t, messages').thinkTime >= Assistant(t, messages).thinkTime

\* the interpreter of turn t has been in Reasoning and is not now
LeftReasoning(tr) == ~tr.isInThinkBlock /\ tr.thinkStartTime # NULL

\* C11 as claimed: thinkTime is never negative, never decreases while the
\* interpreter stays in Reasoning, and no step of the turn changes it once
\* the interpreter has left Reasoning.
C11_ThinkTimeFrozenForGood ==
  [][\A t \in Turns :
       /\ C11_Monotone(t)
       /\ (KeepsAssistant(t) /\ LeftReasoning(turns[t]))
            => Assistant(t, messages').thinkTime = Assistant(t, messages).thinkTime]_vars

\* C11 as amended: thinkTime is never negative, never decreases while the
\* interpreter stays in Reasoning, and does not change over a step that
\* begins and ends outside Reasoning.
C11_ThinkTimeFrozenOutside ==
  [][\A t \in Turns :
       /\ C11_Monotone(t)
       /\ (KeepsAssistant(t) /\ LeftReasoning(turns[t]) /\ ~turns'[t].isInThinkBlock)
            => Assistant(t, messages').thinkTime = Assistant(t, messages).thinkTime]_vars

\* C11 witness: a reasoning segment was closed with a recorded duration and
\* an answer fragment was consumed after the clock had moved on
C11_Witness ==
  \E t \in Turns :
    /\ HasAssistant(t, messages)
    /\ LeftReasoning(turns[t])
    /\ Assistant(t, messages).thinkTime # UNDEF
    /\ now > turns[t].thinkStartTime + Assistant(t, messages).thinkTime
    /\ turns[t].delivered # <<>>
    /\ turns[t].delivered[Len(turns[t].delivered)].content # <<>>

\* ------------------------------------------------ the assistant message
\* the fragments of d that carry reasoning or answer text
Textual(d) == {i \in DOMAIN d : d[i].thinking # <<>> \/ d[i].content # <<>>}

\* the assistant messages of chat c
AssistantsOf(c) == {i \in DOMAIN messages[c] : messages[c][i].role = "assistant"}

\* the turns of chat c that have received a fragment with text
Answered(c) == {t \in Turns : turns[t].chatId = c /\ Textual(turns[t].delivered) # {}}

\* C12: the assistant message of a turn is added when the first fragment
\* with reasoning or answer text arrives, not before and only once: a chat
\* has one assistant message per turn that received text, a turn that
\* received none has no assistant message, whatever its stream delivered.
C12_LazyOnce ==
  /\ \A c \in Chats : Cardinality(AssistantsOf(c)) = Cardinality(Answered(c))
  /\ \A t \in Turns :
       /\ Textual(turns[t].delivered) = {} => turns[t].assistantMessageId = NULL
       /\ Textual(turns[t].delivered) # {} => HasAssistant(t, messages)

\* C12 witness: a fragment without text arrived first, then one with text
C12_Witness ==
  \E t \in Turns :
    /\ Len(turns[t].delivered) >= 2
    /\ 1 \notin Textual(turns[t].delivered)
    /\ 2 \in Textual(turns[t].delivered)
    /\ HasAssistant(t, messages)

\* ------------------------------------------------------ normal stream end
\* the step is the end of the response stream of turn t
StreamEnds(t) == turns[t].pc = "stream" /\ turns'[t].pc = "final"

\* the stream of turn tr ends while the interpreter is in Reasoning
EndsInReasoning(tr) == tr.isInThinkBlock /\ tr.thinkStartTime # NULL

\* C13: when the stream ends normally and the assistant message exists, the
\* message is left with isThinking = false and isLoading = false, whatever
\* the mode; thinkTime is the time elapsed since reasoning began when the
\* stream ended in Reasoning and the duration recorded last otherwise; the
\* content and the metrics are those of the whole accumulated text.
C13_NormalEnd ==
  [][\A t \in Turns :
       (StreamEnds(t) /\ HasAssistant(t, messages))
         => /\ HasAssistant(t, messages')
            /\ ~Assistant(t, messages').isThinking
            /\ ~Assistant(t, messages').isLoading
            /\ Assistant(t, messages').thinkTime =
                 (IF EndsInReasoning(turns[t]) THEN now - turns[t].thinkStartTime
                  ELSE Assistant(t, messages).thinkTime)
            /\ Assistant(t, messages').content = turns[t].assistantContent
            /\ Assistant(t, messages').outputChars = Len(turns[t].assistantContent)]_vars

\* C13 witness: a stream ended in Reasoning after the recorded duration
\* had become stale
C13_Witness ==
  \E t \in Turns :
    /\ turns[t].pc = "final"
    /\ EndsInReasoning(turns[t])
    /\ HasAssistant(t, messages)
    /\ Assistant(t, messages).thinkTime >= 1
    /\ ~Assistant(t, messages).isThinking
    /\ ~Assistant(t, messages).isLoading

\* ------------------------------------------------------ the request body
\* the entries of msgs with that role
WithRole(msgs, role) == {i \in DOMAIN msgs : msgs[i].role = role}

\* C14: with maxMessages = M >= 1, whether or not a system prompt and a
\* memory are present, body.messages has at most M entries, the new user
\* entry included, and at most one entry with role system.
C14_BoundedPrompt ==
  (output.status = "ok" /\ input.maxMessages >= 1)
    => /\ Len(output.messages) <= input.maxMessages
       /\ Cardinality(WithRole(output.messages, "system")) <= 1

\* C15: no two consecutive entries of body.messages have the same role.
C15_RolesAlternate ==
  output.status = "ok"
    => \A i \in 1..(Len(output.messages) - 1) :
         output.messages[i].role # output.messages[i + 1].role

\* C15 witness: the history holds two user messages in a row (a turn that
\* was cancelled before it answered) and ends with a user message
C15_Witness ==
  /\ output.status = "ok"
  /\ Len(output.history) >= 2
  /\ \A i \in DOMAIN output.history :
       output.history[i].role = "user" /\ output.history[i].content # <<>>
  /\ Trim(input.finalContent) # <<>>
  /\ Len(output.messages) = 1

\* the entries that are not blank
NonBlank(msgs) == SelectSeq(msgs, LAMBDA m : Trim(m.content) # <<>>)

RECURSIVE SplitAtBlankLine(_, _)
\* the texts between the blank lines of content; cur is the text read so far
SplitAtBlankLine(content, cur) ==
  IF content = <<>> THEN <<cur>>
  ELSE IF Len(content) >= 2 /\ content[1] = "\n" /\ content[2] = "\n"
       THEN <<cur>> \o SplitAtBlankLine(Tail(Tail(content)), <<>>)
  ELSE SplitAtBlankLine(Tail(content), Append(cur, content[1]))

RECURSIVE Unmerged(_)
\* every merged entry, taken apart at its blank lines
Unmerged(msgs) ==
  IF msgs = <<>> THEN <<>>
  ELSE LET parts == SplitAtBlankLine(msgs[1].content, <<>>)
       IN [i \in DOMAIN parts |-> [role |-> msgs[1].role, content |-> parts[i]]]
            \o Unmerged(Tail(msgs))

\* C16: alternation comes from merging, not dropping: taken apart at the
\* blank lines, body.messages is the sequence of the assembled entries whose
\* content is not blank, in the original order and with the original roles.
C16_MergedNotDropped ==
  output.status = "ok" => Unmerged(output.messages) = NonBlank(output.assembled)

\* C16 witness: a run of entries was merged and a blank entry was left out
C16_Witness ==
  /\ output.status = "ok"
  /\ \E i \in DOMAIN output.messages :
       Len(SplitAtBlankLine(output.messages[i].content, <<>>)) >= 2
  /\ Len(NonBlank(output.assembled)) < Len(output.assembled)

\* the last n entries of s, none when n = 0
LastN(s, n) == SubSeq(s, IF Len(s) > n THEN Len(s) - n + 1 ELSE 1, Len(s))

\* max(0, maxMessages - reservedSlots)
SlotsFor(in) ==
  LET reserved == IF in.systemPrompt = <<>> /\ in.memoryContent = <<>> THEN 1 ELSE 2
      m == MaxMessagesOf(in)
  IN IF m > reserved THEN m - reserved ELSE 0

\* the messages of the chat that may enter the prompt as history
Eligible(in) ==
  SelectSeq(in.messages, LAMBDA m : m.id # in.userMessageId /\ m.role # "system")

\* C17: the history entries of the prompt are the last availableSlots
\* messages of the chat, the message userMessageId and the system messages
\* left out, in their order - none when availableSlots = 0.
C17_HistoryWindow ==
  output.status = "ok"
    => /\ Len(output.history) = Len(LastN(Eligible(input), SlotsFor(input)))
       /\ \A i \in DOMAIN output.history :
            /\ output.history[i].role = LastN(Eligible(input), SlotsFor(input))[i].role
            /\ output.history[i].content =
                 StripInternalContextBlocks(LastN(Eligible(input), SlotsFor(input))[i].content)

\* the step ends the throttle window of kind k
WindowCloses(k) == persist.pending[k] # NoArgs /\ persist'.pending[k] = NoArgs

Converged(k) ==
  /\ persist.pending[k] = NoArgs
  /\ persist.submitted[k] # NoArgs
  /\ persist.written[k] = BackendWrite(k, persist.submitted[k])

Stored(pst, c, m) ==
  \/ /\ pst.written["message"] # NoArgs
     /\ pst.written["message"].chatId = c
     /\ pst.written["message"].message = Serializable(m)
  \/ /\ pst.written["list"] # NoArgs
     /\ pst.written["list"].chatId = c
     /\ \E i \in DOMAIN pst.written["list"].messages :
          pst.written["list"].messages[i] = Serializable(m)

\* C20: when a turn leaves sendMessage (stream end, cancellation or error),
\* the backend already holds the assistant message as the turn leaves it:
\* its last state does not wait for a throttle window.
C20_TerminalStateFlushed ==
  [][\A t \in Turns :
       (Exits(t) /\ HasAssistant(t, messages'))
         => Stored(persist', turns[t].chatId, Assistant(t, messages'))]_vars

\* the step is a failed write of kind k
FailsToWrite(k) == k \notin persist.failed /\ k \in persist'.failed

\* C21: a write that fails while the turn consumes the stream does not
\* interrupt it (the turn stays in the stream), and a failure of a final
\* write, which the turn awaits after the stream ended, makes the turn fail.
C21_OnlyFinalWriteFailureFails ==
  [][\A k \in WriteKinds, t \in Turns :
       FailsToWrite(k)
         => /\ turns[t].pc = "stream" => turns'[t].pc = "stream"
            /\ (turns[t].pc = "final" /\ AwaitsWrite(turns[t], k))
                 => (turns'[t].pc = "done" /\ turns'[t].outcome = "error")]_vars

\* the step is a sendMessage call that fails a check
RejectedCall ==
  \E c \in CallChats, hasModels \in BOOLEAN, content \in CallTexts,
     hasAttachment \in BOOLEAN :
    SendMessageRejected(c, hasModels, content, hasAttachment)

\* C22: a sendMessage call with an unknown chat, no model, or blank text and
\* no attachment changes neither the messages, nor isSending, nor the
\* current controller, also while another turn is in progress.
C22_FailFastKeepsState ==
  [][RejectedCall => UNCHANGED <<messages, isSending, abortController>>]_vars

\* the step is the end of the side pipelines of turn t
SidePipelinesEnd(t) == turns[t].pc = "side" /\ turns'[t].pc # "side"

\* C23: when a side pipeline throws (link fetch, search, retrieval), the turn
\* goes on to add its user message and issue the request, and a chat whose
\* title request throws still ends its turn normally.
C23_SidePipelinesFailSoft ==
  [][\A t \in Turns :
       /\ (SidePipelinesEnd(t) /\ turns'[t].sideFailure # "none")
            => turns'[t].pc = "persistUser"
       /\ (turns[t].pc = "final" /\ Exits(t)) => turns'[t].outcome = "ok"]_vars

\* the step is the call of fetch by turn t
IssuesRequest(t) == turns[t].pc = "persistUser" /\ turns'[t].pc = "fetch"

\* the user messages of chat c, by id
UserMessagesOf(c) ==
  {messages[c][i].id : i \in {j \in DOMAIN messages[c] : messages[c][j].role = "user"}}

\* message id of chat c is in the list given to the last persistChatMessages
InSubmittedList(c, id) ==
  /\ persist.submitted["list"] # NoArgs
  /\ persist.submitted["list"].chatId = c
  /\ \E i \in DOMAIN persist.submitted["list"].messages :
       /\ persist.submitted["list"].messages[i].id = id
       /\ persist.submitted["list"].messages[i].role = "user"

\* C24: when a turn issues the streaming request, its user message (the one
\* user message of the chat, the turn being the first of the chat) is in the
\* chat, the message list holding it has been given to the list write and
\* the chat's timestamp to the meta write.
C24_UserMessageFirst ==
  [][\A t \in Turns :
       IssuesRequest(t)
         => /\ UserMessagesOf(turns[t].chatId) # {}
            /\ \A id \in UserMessagesOf(turns[t].chatId) :
                 InSubmittedList(turns[t].chatId, id)
            /\ persist.submitted["meta"] # NoArgs
            /\ persist.submitted["meta"].id = turns[t].chatId]_vars

\* the request is out, the user message is in the chat and in the list given
\* to the list write
C24_Witness ==
  /\ turns[1].pc = "fetch"
  /\ UserMessagesOf("A") # {}
  /\ \A id \in UserMessagesOf("A") : InSubmittedList("A", id)

\* the step renames the chat of turn t: generateChatTitle has run
TitleFollowUpRuns(t) == title'[turns[t].chatId] # title[turns[t].chatId]

\* C25: a turn that leaves sendMessage ran the title follow-up exactly when
\* its stream had completed and the chat's title was empty or the default
\* title; a turn that ends by cancellation or by error does not run it.
C25_TitleFollowUp ==
  [][\A t \in Turns :
       Exits(t)
         => (TitleFollowUpRuns(t)
               <=> /\ turns'[t].outcome = "ok"
                   /\ title[turns[t].chatId] \in {"", DefaultChatTitle})]_vars

\* a turn completed on a chat that had the default title and the chat was
\* renamed, chat B keeping a title of its own
C25_Witness ==
  /\ turns[1].outcome = "ok"
  /\ title["A"] \in {"generated", "firstWords"}
  /\ title["B"] = "custom"

\* C26: in every metrics snapshot speedCps, when computed, is a quotient of
\* a non-negative number by a positive one (finite and >= 0), also when the
\* present equals the time of the first fragment, and firstTokenMs is at most
\* responseMs when it is defined; the clock does not go back.
C26_MetricsBounded ==
  output.status = "metrics"
    => /\ output.extra.speedCps.defined
            => (output.extra.speedCps.den > 0 /\ output.extra.speedCps.num >= 0)
       /\ output.extra.firstTokenMs # UNDEF
            => output.extra.firstTokenMs <= output.extra.responseMs
       /\ output.extra.responseMs >= 0

\* metrics computed in the millisecond of the first fragment, with text
C26_Witness ==
  /\ output.status = "metrics"
  /\ input.firstTokenTime = input.clock
  /\ input.outputChars > 0
  /\ output.extra.speedCps = [defined |-> TRUE, num |-> input.outputChars * 1000, den |-> 1]
  /\ output.extra.firstTokenMs > 0

\* the call has returned or thrown
Called == output.status # "none"

\* the id given as userMessageId is the id of a message of chat.messages
UserMessageInChat(in) ==
  \E i \in DOMAIN in.messages : in.messages[i].id = in.userMessageId

\* C27: buildOllamaRequestBody throws 'Invalid chat object' for a missing
\* chat or message list, 'No model selected' for a missing model id, and
\* 'User message not found in chat' whenever userMessageId is not the id of a
\* message of the chat, whatever the attachment; it returns no body then.
C27_RejectsMalformed ==
  Called
    => /\ input.chat # "ok" => output = Throws("Invalid chat object")
       /\ (input.chat = "ok" /\ input.selectedModel = "")
            => output = Throws("No model selected")
       /\ (input.chat = "ok" /\ input.selectedModel # "" /\ ~UserMessageInChat(input))
            => output = Throws("User message not found in chat")

\* the entries the references of a body refer to
Dereferenced(r) ==
  [i \in DOMAIN r.refs |-> [role |-> r.heap[r.refs[i]].role,
                            content |-> r.heap[r.refs[i]].content]]

\* C28: a call of buildOllamaRequestBody leaves chat.messages as it was:
\* the same messages in the same order with the same contents, while the
\* body holds the stripped and merged entries.
C28_HistoryUntouched ==
  [][/\ input'.messages = input.messages
     /\ output'.status = "ok"
          => Dereferenced(BuildObjects(input)) = output'.messages]_vars

\* a body was built from a chat with a stored message that holds an
\* internal-context block, which the body does not have
C28_Witness ==
  /\ output.status = "ok"
  /\ \E i \in DOMAIN input.messages :
       /\ input.messages[i].id # input.userMessageId
       /\ input.messages[i].role # "system"
       /\ Includes(input.messages[i].content, <<CTX>>)
  /\ \A i \in DOMAIN output.messages : ~Includes(output.messages[i].content, <<CTX>>)
  /\ Len(output.assembled) > Len(output.messages)

\* C29: in the model-facing context the attachment body has at most 3000
\* characters and the search, link and retrieval bodies at most 6000 each;
\* a section within its cap is kept whole whatever the lengths of the others.
C29_SectionCaps ==
  output.status = "context"
    => \A section \in Sections :
         /\ output.lengths[section] <= CapOf(section)
         /\ input.lengths[section] <= CapOf(section)
              => output.lengths[section] = input.lengths[section]

\* the attachment and the search text exceed their caps and are cut to
\* them, the link text is at its cap and the retrieval text is short
C29_Witness ==
  /\ output.status = "context"
  /\ input.lengths["attachment"] > AttachmentCap
  /\ output.lengths["attachment"] = AttachmentCap
  /\ input.lengths["search"] > ContextCap
  /\ output.lengths["search"] = ContextCap
  /\ output.lengths["links"] = ContextCap
  /\ output.lengths["retrieval"] = 1

\* the step is the start of turn u
Starts(u) == turns[u].pc = "idle" /\ turns'[u].pc = "side"

\* turn t waits for its response or consumes its stream
InFlight(tr) == tr.pc \in {"fetch", "stream"}

\* C30: the start of a turn for one chat does not abort a turn in flight for
\* another chat: that turn's signal does not fire and it keeps waiting for
\* or consuming its stream.
C30_CancellationPerChat ==
  [][\A t, u \in Turns :
       (Starts(u) /\ InFlight(turns[t]) /\ turns[t].chatId # turns'[u].chatId)
         => /\ turns[t].fetchSignal \in aborted' => turns[t].fetchSignal \in aborted
            /\ InFlight(turns'[t])]_vars

\* the invocation has installed its controller and has not left sendMessage
Installed(tr) == tr.pc \in {"side", "persistUser", "fetch", "stream", "final"}

\* the latest invocation of sendMessage
Latest(t) == \A u \in Turns : u > t => turns[u].pc = "idle"

\* C31: while the latest invocation of sendMessage is between installing its
\* controller and its exit, the store's abortController is that controller,
\* and its request (once issued) carries the signal of that controller.
C31_OwnController ==
  \A t \in Turns :
    Installed(turns[t]) /\ Latest(t)
      => /\ abortController = t
         /\ turns[t].pc \in {"fetch", "stream"} => turns[t].fetchSignal = t

\* C32: isSending is true exactly while some invocation of sendMessage that
\* passed its checks has not left sendMessage.
C32_SendingFlag == isSending <=> \E t \in Turns : Installed(turns[t])

\* the places of s where one of the markers in tags begins
PlacesOfAny(s, tags) == UNION {PlacesOf(s, tag) : tag \in tags}

\* s contains an open marker that no close marker follows
OpenNotClosed(s) ==
  \E p \in PlacesOfAny(s, THINK_OPEN_TAGS) :
    \A q \in PlacesOfAny(s, THINK_CLOSE_TAGS) : q < p

\* C33: in a tag-encoded turn, after each fragment the interpreter is in
\* Reasoning exactly when the text accumulated so far contains an open marker
\* that is not followed by a close marker.
C33_ReasoningIffOpenMarker ==
  \A t \in Turns :
    TagEncoded(turns[t].delivered) /\ turns[t].pc = "stream"
      => (turns[t].isInThinkBlock <=> OpenNotClosed(ConcatContent(turns[t].delivered)))

\* the text holds an internal-context block
HasContextBlock(content) == \E k \in DOMAIN content : content[k] = CTX

\* C34: no entry of the request built for a turn contains an
\* internal-context block, whether the turn was started by sendMessage, by
\* editMessage with resend or by regenerateMessage.
C34_NoContextBlockSent ==
  output.status = "ok"
    => \A i \in DOMAIN output.messages : ~HasContextBlock(output.messages[i].content)

\* no turn is in progress and no call waits for its throttle window
Quiet ==
  /\ \A t \in Turns : turns[t].pc \in {"idle", "done"}
  /\ \E t \in Turns : turns[t].pc = "done"
  /\ \A k \in WriteKinds : persist.pending[k] = NoArgs

\* C35: once the turns have ended and every throttle window has elapsed with
\* no further submission, the backend's copy of the chat meta equals the
\* in-memory state: every chat has the title it has in memory, also when
\* meta submissions carrying different fields fell within one window.
C35_PersistedMetaEqualsMemory ==
  Quiet => \A c \in Chats : persist.db.title[c] = title[c]

\* message i of chat c is the assistant message id, and a user message
\* stands right before it
Regenerable(c, id, i) ==
  /\ c \in Chats
  /\ i \in DOMAIN messages[c]
  /\ i > 1
  /\ messages[c][i].id = id
  /\ messages[c][i].role = "assistant"
  /\ messages[c][i - 1].role = "user"

\* the step takes a closure of sendMessage into use
TurnStarts == \E t \in Turns : turns[t].pc = "idle" /\ turns'[t].pc # "idle"

\* the messages before message i - 1 are kept, and the new turn has added a
\* user message made of the content of message i - 1
RegeneratedFrom(c, i) ==
  /\ Len(messages'[c]) = i - 1
  /\ SubSeq(messages'[c], 1, i - 2) = SubSeq(messages[c], 1, i - 2)
  /\ messages'[c][i - 1].role = "user"
  /\ \E ctx \in BOOLEAN :
       messages'[c][i - 1].content = Trim(Trim(messages[c][i - 1].content) \o ContextForUi(ctx))

\* the step is a call of regenerateMessage(c, id)
Regenerates(c, id) ==
  \E hasModels, ctx \in BOOLEAN : RegenerateMessage(c, id, hasModels, ctx)

\* C36: regenerateMessage(c, id) on an assistant message that follows a user
\* message removes both and what follows, and starts a turn with the content
\* of that user message; every other call leaves the messages as they are
\* and starts no turn.
C36_RegenerateGuard ==
  [][\A c \in HandlerChats, id \in CallIds :
       Regenerates(c, id)
         => IF \E i \in 1..nextId : Regenerable(c, id, i)
            THEN /\ TurnStarts
                 /\ \A i \in 1..nextId : Regenerable(c, id, i) => RegeneratedFrom(c, i)
            ELSE /\ UNCHANGED messages
                 /\ ~TurnStarts]_vars

\* the chat of turn t no longer has the assistant message the turn created
Orphaned(t) ==
  /\ turns[t].assistantMessageId # NULL
  /\ ~HasMessage(messages, turns[t].chatId, turns[t].assistantMessageId)

\* the step is a call of deleteMessage
Deletes == \E c \in HandlerChats, id \in CallIds : DeleteMessage(c, id)

WaitEnded == output.status \in {"returned", "thrown"}

====
